---- MODULE Spec2Model ----
(***************************************************************************)
(* Versioned object memory of Poietic (ObjectMemory, MutableFrame,         *)
(* StableFrame, ObjectSnapshot, graph view, topological sort).             *)
(*                                                                         *)
(* Python objects are modelled by identity: `heap` holds every             *)
(* ObjectSnapshot instance ever constructed and a snapshot reference is    *)
(* an index into it; `frames` holds every MutableFrame instance ever       *)
(* constructed (together with the StableFrame built from it by accept)     *)
(* and a frame handle is an index into it.  Python dicts are sequences in  *)
(* insertion order.  None is 0 (identities start at 1).                    *)
(*                                                                         *)
(* The frame code names the memory's generator object_id_generator and     *)
(* snapshot_id_generator; the memory has one generator for the three       *)
(* identity spaces (identity_generator), which is the one modelled.        *)
(* An operation that raises keeps the effects it made before raising;      *)
(* `last` records the last call and whether it returned or raised.         *)
(***************************************************************************)
EXTENDS Integers, Sequences, FiniteSets, TLC

\* ------------------------------------------------------------------ bounds
\* Identities are issued while the generator is at most MaxId (history),
\* MaxEditId (copy on write), MaxGraphId (graph editing).
MaxId == 6
MaxEditId == 8
MaxGraphId == 8
\* Number of ObjectSnapshot instances ever constructed (history / copy on
\* write / graph editing).
MaxHistoryHeap == 1
MaxHeap == 3
MaxGraphHeap == 3
\* Number of MutableFrame instances ever constructed, the first one, built
\* by the constructor of the memory, included (history / copy on write /
\* graph editing).
MaxFrames == 4
MaxEditFrames == 3
MaxGraphFrames == 2
\* Identities a caller passes explicitly (object IDs, snapshot IDs).
MaxInput == 2
\* Component values are 1..MaxValue; 0 stands for "kind not present".
MaxValue == 1
\* Removals recorded in one frame (_removed_objects only ever grows).
MaxRemoved == 1
\* Nodes and edges handed to topological_sort.
MaxSortNodes == 3
MaxSortEdges == 2
\* Version reuse: frames ever constructed, snapshots ever constructed, and
\* the highest state of the generator at which identities are issued.
MaxReuseFrames == 5
MaxReuseHeap == 2
MaxReuseId == 5
\* Component sets on their own: values 1..MaxComponentValue, components
\* handed to the constructor, and set() calls made afterwards.
MaxComponentValue == 3
MaxInitialComponents == 2
MaxSetCalls == 2
\* Calls made on the identity generator alone, and the identities 1..MaxMarked
\* a caller marks as used.
MaxGeneratorCalls == 4
MaxMarked == 3

\* ------------------------------------------------------------- vocabulary
UNSTABLE == "UNSTABLE"
TRANSIENT == "TRANSIENT"
FROZEN == "FROZEN"

Kinds == {"A", "B"}
NoComponents == [k \in Kinds |-> 0]

VARIABLES
    identity_generator,     \* SequentialIDGenerator._current of the memory
    heap,                   \* all ObjectSnapshot instances
    frames,                 \* all MutableFrame instances (+ their StableFrame)
    stable_frames,          \* ObjectMemory._stable_frames: <<[version, frame]>>
    mutable_frames,         \* ObjectMemory._mutable_frames: version -> frame
    version_history,        \* ObjectMemory.version_history
    current_version_index,  \* ObjectMemory.current_version_index (0-based)
    last                    \* the last call: operation, arguments, outcome

vars == <<identity_generator, heap, frames, stable_frames, mutable_frames,
          version_history, current_version_index, last>>

memvars == <<identity_generator, heap, frames, stable_frames, mutable_frames,
             version_history, current_version_index>>

\* ---------------------------------------------------------- VersionState
is_mutable(state) == state = UNSTABLE \/ state = TRANSIENT

can_derive(state) == state = TRANSIENT \/ state = FROZEN

\* ------------------------------------------------- SequentialIDGenerator
\* next(): returns _current and advances it.
next_id(current) == current

next_state(current) == current + 1

\* mark_used(id): _current = id + 1
mark_used(current, id) == id + 1

\* ----------------------------------------------------------- ComponentSet
\* ComponentSet(components): set() each component of the list in turn.
RECURSIVE ComponentSetOf(_, _)
ComponentSetOf(components, acc) ==
    IF components = <<>> THEN acc
    ELSE ComponentSetOf(Tail(components),
                        [acc EXCEPT ![Head(components).kind] = Head(components).value])

\* Mutant: set() that keeps the component a kind already has
component_set_keeping_first(cs, kind, value) ==
    IF cs[kind] # 0 THEN cs ELSE [cs EXCEPT ![kind] = value]

\* ComponentSet.set(component): the component is stored under its class
component_set(cs, kind, value) == [cs EXCEPT ![kind] = value]

\* ComponentSet.get(component_type)
component_get(cs, kind) == cs[kind]

\* len(ComponentSet.as_list()): one entry per key of _components
as_list_len(cs) == Cardinality({kind \in Kinds : cs[kind] # 0})

component_has(cs, kind) == cs[kind] # 0

\* ---------------------------------------------------------- ordered dicts
\* A dict is a sequence of entries with a `key` field, in insertion order.
HasKey(d, k) == \E i \in 1..Len(d) : d[i].key = k

IndexOfKey(d, k) == CHOOSE i \in 1..Len(d) : d[i].key = k

Lookup(d, k) == d[IndexOfKey(d, k)]

\* d[k] = entry : an existing key keeps its position.
DictSet(d, entry) ==
    IF HasKey(d, entry.key)
    THEN [d EXCEPT ![IndexOfKey(d, entry.key)] = entry]
    ELSE Append(d, entry)

\* del d[k]
DictDel(d, k) == SelectSeq(d, LAMBDA e : e.key # k)

\* A dict that is never iterated is a function: m[k] = v and del m[k]
MapSet(m, k, v) == [x \in DOMAIN m \cup {k} |-> IF x = k THEN v ELSE m[x]]

MapDel(m, k) == [x \in DOMAIN m \ {k} |-> m[x]]

Keys(d) == {d[i].key : i \in 1..Len(d)}

\* ------------------------------------------------------- ObjectSnapshot
\* ObjectSnapshot.__init__ / Node / Edge: a new snapshot is UNSTABLE.
NewSnapshot(id, snapshot_id, structural, origin, target, type, components) ==
    [id |-> id, snapshot_id |-> snapshot_id, state |-> UNSTABLE,
     structural |-> structural, origin |-> origin, target |-> target,
     type |-> type, components |-> ComponentSetOf(components, NoComponents)]

\* structural_dependencies(): [] for objects and nodes, [origin, target] for edges
structural_dependencies(s) ==
    IF s.structural = "edge" THEN {s.origin, s.target} ELSE {}

\* ------------------------------------------------------------ MutableFrame
\* Mutant: a frame that starts empty whatever objects it is given
NewFrameWithoutObjects(version, objects) ==
    [version |-> version, state |-> UNSTABLE, snapshots |-> <<>>,
     snapshot_ids |-> {}, removed_objects |-> <<>>, derived_objects |-> <<>>,
     accepted |-> FALSE, stable |-> <<>>]

\* MutableFrame.__init__(memory, version, objects)
NewFrame(version, objects) ==
    [version |-> version,
     state |-> UNSTABLE,
     snapshots |-> [i \in 1..Len(objects) |->
                       [key |-> heap[objects[i]].id, ref |-> objects[i], owned |-> FALSE]],
     snapshot_ids |-> {heap[objects[i]].snapshot_id : i \in 1..Len(objects)},
     removed_objects |-> <<>>,
     derived_objects |-> <<>>,
     accepted |-> FALSE,
     stable |-> <<>>]

frame_contains(f, id) == HasKey(f.snapshots, id)

\* MutableFrame.has_changes
has_changes(f) == Len(f.removed_objects) > 0 \/ Len(f.derived_objects) > 0

\* ---------------------------------------------------------- ObjectMemory
\* Mutant: a memory that looks for a version among its stable frames only
contains_version_among_stable(version) == HasKey(stable_frames, version)

\* memory.contains_version(version)
contains_version(version) ==
    HasKey(stable_frames, version) \/ version \in DOMAIN mutable_frames

\* current_version: raises when the index is not a valid index of the history
current_version_resolves ==
    version_history # <<>> /\ current_version_index < Len(version_history)

current_version == version_history[current_version_index + 1]

\* memory.frame(version): the stable frame registered under the version
memory_frame(version) == Lookup(stable_frames, version).frame

current_frame == memory_frame(current_version)

\* StableFrame.contains(id) of the stable frame built from frame h
stable_contains(h, id) == frames[h].accepted /\ HasKey(frames[h].stable, id)

\* The record of the last call: the operation, the frame handle it was called
\* on, its identity argument (object ID or version), the snapshot instance
\* (or second identity) involved, its boolean argument, and whether it
\* returned (ok) or raised.
CallOf(op, frame, arg, ref, flag, ok) ==
    [op |-> op, frame |-> frame, arg |-> arg, ref |-> ref, flag |-> flag, ok |-> ok]

Call(op, frame, arg, ok) == CallOf(op, frame, arg, 0, FALSE, ok)

\* State after ObjectMemory(): create_frame() issues version 1 and accept()
\* registers the empty frame and starts the history.
InitMemory ==
    /\ identity_generator = 2
    /\ heap = <<>>
    /\ frames = <<[version |-> 1, state |-> FROZEN, snapshots |-> <<>>,
                   snapshot_ids |-> {}, removed_objects |-> <<>>,
                   derived_objects |-> <<>>, accepted |-> TRUE, stable |-> <<>>]>>
    /\ stable_frames = <<[key |-> 1, frame |-> 1]>>
    /\ mutable_frames = <<>>
    /\ version_history = <<1>>
    /\ current_version_index = 0

Init ==
    /\ InitMemory
    /\ last = Call("init", 0, 0, TRUE)

\* create_frame(version): version = 0 stands for None
create_frame(version) ==
    /\ IF version # 0 /\ contains_version(version)
       THEN /\ last' = Call("create_frame", 0, version, FALSE)
            /\ UNCHANGED memvars
       ELSE LET actual_version == IF version # 0 THEN version
                                  ELSE next_id(identity_generator)
            IN /\ identity_generator' = IF version # 0
                                        THEN mark_used(identity_generator, version)
                                        ELSE next_state(identity_generator)
               /\ frames' = Append(frames, NewFrame(actual_version, <<>>))
               /\ mutable_frames' = MapSet(mutable_frames, actual_version, Len(frames) + 1)
               /\ last' = Call("create_frame", Len(frames) + 1, version, TRUE)
               /\ UNCHANGED <<heap, stable_frames, version_history, current_version_index>>

\* derive_frame(original_version, version): 0 stands for None
derive_frame(original_version, version) ==
    /\ LET actual_original_version ==
               IF original_version # 0 THEN original_version ELSE current_version
           actual_version == IF version # 0 THEN version
                             ELSE next_id(identity_generator)
           generator == IF version # 0
                        THEN mark_used(identity_generator, version)
                        ELSE next_state(identity_generator)
           call(frame, ok) ==
               CallOf("derive_frame", frame, version, original_version, FALSE, ok)
       IN IF \/ original_version # 0 /\ ~contains_version(original_version)
             \/ original_version = 0 /\ ~current_version_resolves
             \/ version # 0 /\ contains_version(version)
          THEN /\ last' = call(0, FALSE)
               /\ UNCHANGED memvars
          ELSE IF ~HasKey(stable_frames, actual_original_version)
          THEN \* KeyError, after the generator has been advanced
               /\ identity_generator' = generator
               /\ last' = call(0, FALSE)
               /\ UNCHANGED <<heap, frames, stable_frames, mutable_frames,
                              version_history, current_version_index>>
          ELSE LET original == frames[Lookup(stable_frames, actual_original_version).frame]
                   objects == [i \in 1..Len(original.stable) |-> original.stable[i].ref]
               IN /\ identity_generator' = generator
                  /\ frames' = Append(frames, NewFrame(actual_version, objects))
                  /\ mutable_frames' = MapSet(mutable_frames, actual_version, Len(frames) + 1)
                  /\ last' = call(Len(frames) + 1, TRUE)
                  /\ UNCHANGED <<heap, stable_frames, version_history, current_version_index>>

\* Mutant: insert that does not look at the state of the frame
insert_allowed_in_any_state(f, snapshot) ==
    /\ ~HasKey(f.snapshots, snapshot.id)
    /\ snapshot.snapshot_id \notin f.snapshot_ids

\* MutableFrame.insert(snapshot, owned) on a frame value: the frame after the
\* call, or the frame unchanged when an assertion fails.
insert_allowed(f, snapshot) ==
    /\ is_mutable(f.state)
    /\ ~HasKey(f.snapshots, snapshot.id)
    /\ snapshot.snapshot_id \notin f.snapshot_ids

inserted(f, snapshot, ref, owned) ==
    [f EXCEPT !.snapshots = Append(@, [key |-> snapshot.id, ref |-> ref, owned |-> owned]),
              !.snapshot_ids = @ \cup {snapshot.snapshot_id}]

\* frame.insert(snapshot, owned) with a snapshot instance that already exists
insert(h, ref, owned) ==
    /\ IF insert_allowed(frames[h], heap[ref])
       THEN /\ frames' = [frames EXCEPT ![h] = inserted(@, heap[ref], ref, owned)]
            /\ last' = CallOf("insert", h, heap[ref].id, ref, owned, TRUE)
       ELSE /\ frames' = frames
            /\ last' = CallOf("insert", h, heap[ref].id, ref, owned, FALSE)
    /\ UNCHANGED <<identity_generator, heap, stable_frames, mutable_frames,
                   version_history, current_version_index>>

\* frame.insert(ObjectSnapshot(...) / Node(...) / Edge(...), owned) with a
\* snapshot the caller has just constructed
insert_new(h, snapshot, owned) ==
    /\ LET ref == Len(heap) + 1
       IN IF insert_allowed(frames[h], snapshot)
          THEN /\ heap' = Append(heap, snapshot)
               /\ frames' = [frames EXCEPT ![h] = inserted(@, snapshot, ref, owned)]
               /\ last' = CallOf("insert", h, snapshot.id, ref, owned, TRUE)
          ELSE /\ UNCHANGED <<heap, frames>>
               /\ last' = CallOf("insert", h, snapshot.id, 0, owned, FALSE)
    /\ UNCHANGED <<identity_generator, stable_frames, mutable_frames,
                   version_history, current_version_index>>

\* frame.create_object(object_type, components)
create_object(h, type, components) ==
    /\ LET actual_id == next_id(identity_generator)
           snapshot_id == next_id(next_state(identity_generator))
           new_object == NewSnapshot(actual_id, snapshot_id, "node", 0, 0, type, components)
           ref == Len(heap) + 1
       IN /\ identity_generator' = next_state(next_state(identity_generator))
          /\ IF insert_allowed(frames[h], new_object)
             THEN /\ heap' = Append(heap, new_object)
                  /\ frames' = [frames EXCEPT ![h] =
                        [inserted(@, new_object, ref, TRUE) EXCEPT
                            !.derived_objects = DictSet(@, [key |-> actual_id, ref |-> ref])]]
                  /\ last' = CallOf("create_object", h, actual_id, ref, TRUE, TRUE)
             ELSE /\ UNCHANGED <<heap, frames>>
                  /\ last' = CallOf("create_object", h, actual_id, 0, TRUE, FALSE)
    /\ UNCHANGED <<stable_frames, mutable_frames, version_history, current_version_index>>

\* ObjectSnapshot.derive asserts can_derive; Edge.derive overrides it
\* without the assertion.
derive_allowed(s) == s.structural = "edge" \/ can_derive(s.state)

\* snapshot.derive(snapshot_id, id): id = 0 keeps the object ID.  Edge.derive
\* builds the edge from id, snapshot ID, origin, target and components only.
derive(s, snapshot_id, id) ==
    [id |-> IF id # 0 THEN id ELSE s.id,
     snapshot_id |-> snapshot_id,
     state |-> UNSTABLE,
     structural |-> s.structural,
     origin |-> s.origin,
     target |-> s.target,
     type |-> IF s.structural = "edge" THEN "none" ELSE s.type,
     components |-> s.components]

\* frame.insert_derived(original, id) where `op` names the graph call it
\* serves; `original` is the value of the snapshot that is derived.
insert_derived(op, h, original, id) ==
    LET f == frames[h]
        takes == IF id # 0 THEN 1 ELSE 2
        actual_id == IF id # 0 THEN id ELSE next_id(identity_generator)
        snapshot_id == IF id # 0 THEN next_id(identity_generator)
                       ELSE next_id(next_state(identity_generator))
        derived == derive(original, snapshot_id, actual_id)
        ref == Len(heap) + 1
    IN IF ~is_mutable(f.state)
       THEN /\ last' = CallOf(op, h, 0, 0, FALSE, FALSE)
            /\ UNCHANGED memvars
       ELSE /\ identity_generator' = identity_generator + takes
            /\ IF derive_allowed(original) /\ insert_allowed(f, derived)
               THEN /\ heap' = Append(heap, derived)
                    /\ frames' = [frames EXCEPT ![h] =
                          [inserted(@, derived, ref, FALSE) EXCEPT
                              !.derived_objects = DictSet(@, [key |-> actual_id, ref |-> ref])]]
                    /\ last' = CallOf(op, h, actual_id, ref, FALSE, TRUE)
               ELSE /\ UNCHANGED <<heap, frames>>
                    /\ last' = CallOf(op, h, actual_id, 0, FALSE, FALSE)
            /\ UNCHANGED <<stable_frames, mutable_frames, version_history,
                           current_version_index>>

\* ObjectType.component_types of the object types of the metamodel
component_types(type) ==
    IF type = "Stock" THEN <<"A">>
    ELSE IF type = "Arrow" THEN <<"B">>
    ELSE <<>>

structural_type(type) ==
    IF type = "Stock" THEN "node" ELSE IF type = "Arrow" THEN "edge" ELSE "object"

\* comp_type(): the default-initialised component of a kind
default_component(kind) == [kind |-> kind, value |-> 1]

\* Mutant: every required kind is set to its default
RECURSIVE with_required_overwriting(_, _)
with_required_overwriting(cs, kinds) ==
    IF kinds = <<>> THEN cs
    ELSE with_required_overwriting(
             component_set(cs, Head(kinds), default_component(Head(kinds)).value),
             Tail(kinds))

\* "Insert missing but required components with default initialization"
RECURSIVE with_required(_, _)
with_required(cs, kinds) ==
    IF kinds = <<>> THEN cs
    ELSE with_required(IF component_has(cs, Head(kinds)) THEN cs
                       ELSE component_set(cs, Head(kinds), default_component(Head(kinds)).value),
                       Tail(kinds))

\* MutableUnboundGraph.create_node(object_type, components)
create_node(h, type, components) ==
    /\ IF structural_type(type) # "node"
       THEN /\ last' = Call("create_node", h, 0, FALSE)
            /\ UNCHANGED memvars
       ELSE LET object == [NewSnapshot(0, 0, "node", 0, 0, type, components) EXCEPT
                              !.state = TRANSIENT,
                              !.components = with_required(@, component_types(type))]
            IN insert_derived("create_node", h, object, 0)

\* MutableUnboundGraph.create_edge(object_type, origin, target, components)
create_edge(h, type, origin, target, components) ==
    /\ IF \/ structural_type(type) # "edge"
          \/ ~frame_contains(frames[h], origin)
          \/ ~frame_contains(frames[h], target)
       THEN /\ last' = CallOf("create_edge", h, origin, target, FALSE, FALSE)
            /\ UNCHANGED memvars
       ELSE LET object == [NewSnapshot(0, 0, "edge", origin, target, type, components) EXCEPT
                              !.state = TRANSIENT,
                              !.components = with_required(@, component_types(type))]
            IN insert_derived("create_edge", h, object, 0)

\* MutableUnboundGraph.insert_node(node)
insert_node(h, node) ==
    /\ insert_derived("insert_node", h, node, 0)

\* Mutant: insert_edge that does not look for the endpoints
insert_edge_unchecked(h, edge) ==
    /\ insert_derived("insert_edge", h, edge, 0)

\* MutableUnboundGraph.insert_edge(edge)
insert_edge(h, edge) ==
    /\ IF \/ ~frame_contains(frames[h], edge.origin)
          \/ ~frame_contains(frames[h], edge.target)
       THEN /\ last' = CallOf("insert_edge", h, edge.origin, edge.target, FALSE, FALSE)
            /\ UNCHANGED memvars
       ELSE insert_derived("insert_edge", h, edge, 0)

\* frame._derive_object(id) on a frame that is mutable, contains id and does
\* not own it: the frame with the derived snapshot (instance `ref`) in place
\* of the original.
derive_object(f, id, ref) ==
    [f EXCEPT !.snapshots = DictSet(@, [key |-> id, ref |-> ref, owned |-> TRUE]),
              !.snapshot_ids = @ \cup {id}]

\* Mutant: mutable_object that refuses an object the frame already owns
mutable_object_case_refusing_owned(f, id) ==
    IF ~is_mutable(f.state) THEN "assert"
    ELSE IF ~HasKey(f.snapshots, id) THEN "assert"
    ELSE IF Lookup(f.snapshots, id).owned THEN "assert"
    ELSE IF ~derive_allowed(heap[Lookup(f.snapshots, id).ref]) THEN "underivable"
    ELSE "derive"

\* What frame.mutable_object(id) does: "found" (already in _derived_objects),
\* "derive" (derives the object), "assert" (an assertion fails before an
\* identity is taken), "underivable" (the original refuses to be derived,
\* after the snapshot ID has been taken).
mutable_object_case(f, id) ==
    IF ~is_mutable(f.state) THEN "assert"
    ELSE IF HasKey(f.derived_objects, id) THEN "found"
    ELSE IF ~HasKey(f.snapshots, id) THEN "assert"
    ELSE IF Lookup(f.snapshots, id).owned THEN "assert"
    ELSE IF ~derive_allowed(heap[Lookup(f.snapshots, id).ref]) THEN "underivable"
    ELSE "derive"

\* Mutant: mutable_object that hands out the shared original instead of a
\* derived copy
mutable_ref_in_place(f, id) ==
    IF HasKey(f.derived_objects, id) THEN Lookup(f.derived_objects, id).ref
    ELSE Lookup(f.snapshots, id).ref

\* The snapshot instance frame.mutable_object(id) returns: the one recorded
\* in _derived_objects, or else the newly derived one.
mutable_ref(f, id) ==
    IF HasKey(f.derived_objects, id) THEN Lookup(f.derived_objects, id).ref
    ELSE Len(heap) + 1

\* frame.mutable_object(id), followed by components.set(kind, value) of the
\* returned snapshot when kind # "" (set_component).
mutate(op, h, id, kind, value) ==
    LET f == frames[h]
        case == mutable_object_case(f, id)
        ref == mutable_ref(f, id)
        derived == derive(heap[Lookup(f.snapshots, id).ref], next_id(identity_generator), 0)
        set(hp) == IF kind = "" THEN hp
                   ELSE [hp EXCEPT ![ref].components = component_set(@, kind, value)]
    IN /\ CASE case = "assert" ->
                 /\ last' = CallOf(op, h, id, 0, FALSE, FALSE)
                 /\ UNCHANGED memvars
            [] case = "underivable" ->
                 /\ identity_generator' = next_state(identity_generator)
                 /\ last' = CallOf(op, h, id, 0, FALSE, FALSE)
                 /\ UNCHANGED <<heap, frames, stable_frames, mutable_frames,
                                version_history, current_version_index>>
            [] case = "found" ->
                 /\ heap' = set(heap)
                 /\ last' = CallOf(op, h, id, ref, FALSE, TRUE)
                 /\ UNCHANGED <<identity_generator, frames, stable_frames,
                                mutable_frames, version_history, current_version_index>>
            [] case = "derive" ->
                 /\ identity_generator' = next_state(identity_generator)
                 /\ heap' = set(Append(heap, derived))
                 /\ frames' = [frames EXCEPT ![h] =
                       [derive_object(@, id, Len(heap) + 1) EXCEPT
                           !.derived_objects = DictSet(@, [key |-> id, ref |-> Len(heap) + 1])]]
                 /\ last' = CallOf(op, h, id, ref, FALSE, TRUE)
                 /\ UNCHANGED <<stable_frames, mutable_frames, version_history,
                                current_version_index>>

mutable_object(h, id) == mutate("mutable_object", h, id, "", 0)

set_component(h, id, kind, value) == mutate("set_component", h, id, kind, value)

\* frame._remove(id) on a frame that is mutable and contains id.  The set
\* remove() raises KeyError when the snapshot ID is not tracked; the entry
\* has then already been deleted.
remove_raises(f, id) ==
    heap[Lookup(f.snapshots, id).ref].snapshot_id \notin f.snapshot_ids

remove(f, id) ==
    IF remove_raises(f, id)
    THEN [f EXCEPT !.snapshots = DictDel(@, id)]
    ELSE [f EXCEPT !.snapshots = DictDel(@, id),
                   !.snapshot_ids = @ \ {heap[Lookup(f.snapshots, id).ref].snapshot_id},
                   !.removed_objects = Append(@, id)]

\* The positions of the entries of the frame that depend on id
dependants(f, id) ==
    {i \in 1..Len(f.snapshots) :
        id \in structural_dependencies(heap[f.snapshots[i].ref])}

\* frame.remove_cascading(id).  The loop deletes from the dict it iterates:
\* after the first dependant is removed the iteration raises RuntimeError.
remove_cascading(h, id) ==
    LET f == frames[h]
        deps == dependants(f, id)
        first == f.snapshots[CHOOSE i \in deps : \A j \in deps : i <= j].key
    IN /\ IF ~is_mutable(f.state) \/ ~HasKey(f.snapshots, id)
          THEN /\ last' = Call("remove_cascading", h, id, FALSE)
               /\ frames' = frames
          ELSE IF deps # {}
          THEN /\ frames' = [frames EXCEPT ![h] = remove(f, first)]
               /\ last' = Call("remove_cascading", h, id, FALSE)
          ELSE /\ frames' = [frames EXCEPT ![h] = remove(f, id)]
               /\ last' = Call("remove_cascading", h, id, ~remove_raises(f, id))
       /\ UNCHANGED <<identity_generator, heap, stable_frames, mutable_frames,
                      version_history, current_version_index>>

\* The heap after frame.freeze(): every owned snapshot of the frame is FROZEN.
frozen_heap(f) ==
    [r \in 1..Len(heap) |->
        IF \E i \in 1..Len(f.snapshots) :
              f.snapshots[i].ref = r /\ f.snapshots[i].owned
        THEN [heap[r] EXCEPT !.state = FROZEN]
        ELSE heap[r]]

\* accept: "missing structural dependencies" of the derived objects
missing_objects(f) ==
    {dep \in UNION {structural_dependencies(heap[f.derived_objects[i].ref]) :
                        i \in 1..Len(f.derived_objects)} :
        ~frame_contains(f, dep)}

\* Mutant: a StableFrame constructor that takes snapshots in any state
stable_frame_never_raises(f, hp) == FALSE

\* StableFrame(version, objects) raises on a snapshot that is_mutable
stable_frame_raises(f, hp) ==
    \E i \in 1..Len(f.snapshots) : is_mutable(hp[f.snapshots[i].ref].state)

\* StableFrame._snapshots built from frame.snapshots
StableFrame(f) ==
    [i \in 1..Len(f.snapshots) |-> [key |-> f.snapshots[i].key, ref |-> f.snapshots[i].ref]]

\* Mutant: accept that appends without deleting the redo history
appended_history_keeping_redo(version) == Append(version_history, version)

\* The history after accept with append_history
appended_history(version) ==
    Append(SubSeq(version_history, 1, current_version_index + 1), version)

\* Mutant: accept that takes every frame into the history
history_wanted_always(append_history) == TRUE

\* accept: "if append_history"
history_wanted(append_history) == append_history

\* memory.accept(frame, append_history)
accept(h, append_history) ==
    LET f == frames[h]
        call(ok) == CallOf("accept", h, f.version, 0, append_history, ok)
    IN IF missing_objects(f) # {} \/ ~is_mutable(f.state)
       THEN /\ last' = call(FALSE)
            /\ UNCHANGED memvars
       ELSE /\ heap' = frozen_heap(f)
            /\ identity_generator' = identity_generator
            /\ IF stable_frame_raises(f, heap')
               THEN /\ frames' = [frames EXCEPT ![h].state = FROZEN]
                    /\ last' = call(FALSE)
                    /\ UNCHANGED <<stable_frames, mutable_frames, version_history,
                                   current_version_index>>
               ELSE /\ frames' = [frames EXCEPT ![h].state = FROZEN,
                                                ![h].accepted = TRUE,
                                                ![h].stable = StableFrame(f)]
                    /\ stable_frames' = DictSet(stable_frames,
                                                [key |-> f.version, frame |-> h])
                    /\ IF f.version \notin DOMAIN mutable_frames
                       THEN \* del raises KeyError
                            /\ last' = call(FALSE)
                            /\ UNCHANGED <<mutable_frames, version_history,
                                           current_version_index>>
                       ELSE /\ mutable_frames' = MapDel(mutable_frames, f.version)
                            /\ last' = call(TRUE)
                            /\ IF history_wanted(append_history)
                               THEN /\ version_history' = appended_history(f.version)
                                    /\ current_version_index' = current_version_index + 1
                               ELSE UNCHANGED <<version_history, current_version_index>>

\* memory.discard(frame)
discard(h) ==
    LET f == frames[h]
    IN IF ~is_mutable(f.state)
       THEN /\ last' = Call("discard", h, f.version, FALSE)
            /\ UNCHANGED memvars
       ELSE /\ heap' = frozen_heap(f)
            /\ frames' = [frames EXCEPT ![h].state = FROZEN]
            /\ mutable_frames' = MapDel(mutable_frames, f.version)
            /\ last' = Call("discard", h, f.version, f.version \in DOMAIN mutable_frames)
            /\ UNCHANGED <<identity_generator, stable_frames, version_history,
                           current_version_index>>

undoable_versions == SubSeq(version_history, 1, current_version_index + 1)

redoable_versions ==
    SubSeq(version_history, current_version_index + 2, Len(version_history))

\* list.index(version): the first position, 0-based
index(history, version) ==
    (CHOOSE i \in 1..Len(history) :
        history[i] = version /\ \A j \in 1..(i - 1) : history[j] # version) - 1

InHistory(version) == \E i \in 1..Len(version_history) : version_history[i] = version

\* Mutant: undo that deletes the history after the version
undo_truncating(version) ==
    /\ IF InHistory(version)
       THEN /\ current_version_index' = index(version_history, version)
            /\ version_history' = SubSeq(version_history, 1, index(version_history, version) + 1)
            /\ last' = Call("undo", 0, version, TRUE)
       ELSE /\ UNCHANGED <<current_version_index, version_history>>
            /\ last' = Call("undo", 0, version, FALSE)
    /\ UNCHANGED <<identity_generator, heap, frames, stable_frames, mutable_frames>>

\* Mutant: undo that goes back to the first version when the version asked
\* for is not in the history
undo_to_first_when_absent(version) ==
    /\ IF InHistory(version)
       THEN /\ current_version_index' = index(version_history, version)
            /\ last' = Call("undo", 0, version, TRUE)
       ELSE /\ current_version_index' = 0
            /\ last' = Call("undo", 0, version, TRUE)
    /\ UNCHANGED <<identity_generator, heap, frames, stable_frames, mutable_frames,
                   version_history>>

\* memory.undo(version)
undo(version) ==
    /\ IF InHistory(version)
       THEN /\ current_version_index' = index(version_history, version)
            /\ last' = Call("undo", 0, version, TRUE)
       ELSE /\ current_version_index' = current_version_index
            /\ last' = Call("undo", 0, version, FALSE)
    /\ UNCHANGED <<identity_generator, heap, frames, stable_frames, mutable_frames,
                   version_history>>

\* Mutant: redo that steps one version forward whatever version is asked for
redo_one_step(version) ==
    /\ IF InHistory(version)
       THEN /\ current_version_index' =
                  IF current_version_index + 1 < Len(version_history)
                  THEN current_version_index + 1 ELSE current_version_index
            /\ last' = Call("redo", 0, version, TRUE)
       ELSE /\ current_version_index' = current_version_index
            /\ last' = Call("redo", 0, version, FALSE)
    /\ UNCHANGED <<identity_generator, heap, frames, stable_frames, mutable_frames,
                   version_history>>

\* memory.redo(version)
redo(version) ==
    /\ IF InHistory(version)
       THEN /\ current_version_index' = index(version_history, version)
            /\ last' = Call("redo", 0, version, TRUE)
       ELSE /\ current_version_index' = current_version_index
            /\ last' = Call("redo", 0, version, FALSE)
    /\ UNCHANGED <<identity_generator, heap, frames, stable_frames, mutable_frames,
                   version_history>>

\* ------------------------------------------------------------ save and load
\* ObjectMemory.all_versions: the keys of _stable_frames, in insertion order
all_versions == [k \in 1..Len(stable_frames) |-> stable_frames[k].key]

\* The snapshot instances of all stable frames, frame after frame
RECURSIVE stable_refs(_)
stable_refs(k) ==
    IF k = 0 THEN <<>>
    ELSE stable_refs(k - 1) \o
         [i \in 1..Len(frames[stable_frames[k].frame].stable) |->
             frames[stable_frames[k].frame].stable[i].ref]

\* ObjectMemory.snapshots: the snapshots of the stable frames, the first one
\* met for each object ID (`seen` holds snapshot.id)
memory_snapshots ==
    LET all == stable_refs(Len(stable_frames))
    IN {all[i] : i \in {i \in 1..Len(all) :
                           \A j \in 1..(i - 1) : heap[all[j]].id # heap[all[i]].id}}

\* save(store): the "snapshots" and "frames" records written to the store; a
\* frame record lists obj.id of the frame's snapshots
save ==
    [snapshots |-> {[object_id |-> heap[r].id, snapshot_id |-> heap[r].snapshot_id] :
                       r \in memory_snapshots},
     frames |-> [k \in 1..Len(stable_frames) |->
                    [frame_id |-> stable_frames[k].key,
                     snapshots |-> [i \in 1..Len(frames[stable_frames[k].frame].stable) |->
                                       frames[stable_frames[k].frame].stable[i].key]]]]

\* _initialize_from_store: loading one frame record raises when an ID of the
\* record is no key of the loaded snapshots (which are keyed by snapshot ID),
\* and otherwise when the frame is accepted with a loaded snapshot in it: the
\* snapshot is inserted as not owned and is Unstable, as from_record built it.
load_frame_raises(store, record) ==
    \/ \E i \in 1..Len(record.snapshots) :
          \A snapshot \in store.snapshots : snapshot.snapshot_id # record.snapshots[i]
    \/ record.snapshots # <<>>

\* ObjectMemory(store=store): every frame record becomes a frame created
\* under its version and accepted with the history appended.  The memory
\* built (ok), or the exception raised while loading (not ok).
initialize_from_store(store) ==
    LET raises == \E k \in 1..Len(store.frames) : load_frame_raises(store, store.frames[k])
        versions == [k \in 1..Len(store.frames) |-> store.frames[k].frame_id]
    IN [ok |-> ~raises,
        all_versions |-> IF raises THEN <<>> ELSE versions,
        version_history |-> IF raises THEN <<>> ELSE versions,
        current_version_index |-> IF raises THEN 0 ELSE Len(versions) - 1]

\* memory.save(store) followed by ObjectMemory(metamodel, store): `last` holds
\* the versions and the history of the saved memory and of the restored one
restore ==
    /\ last' = [op |-> "restore",
                ok |-> initialize_from_store(save).ok,
                saved_versions |-> all_versions,
                saved_history |-> version_history,
                all_versions |-> initialize_from_store(save).all_versions,
                version_history |-> initialize_from_store(save).version_history]
    /\ UNCHANGED memvars

\* ----------------------------------------------------- Graph.topological_sort
\* list.remove(edge): edges are compared by identity (the `id` of the record)
list_remove(edges, edge) ==
    LET first == CHOOSE i \in 1..Len(edges) :
                     edges[i] = edge /\ \A j \in 1..(i - 1) : edges[j] # edge
    IN SubSeq(edges, 1, first - 1) \o SubSeq(edges, first + 1, Len(edges))

\* The body of "for edge in outgoings": each edge is removed from the list;
\* when its target has no incoming edge left, `node` is appended to sources.
RECURSIVE sort_visit(_, _, _, _)
sort_visit(outgoings, edges, sources, node) ==
    IF outgoings = <<>> THEN [edges |-> edges, sources |-> sources]
    ELSE LET edge == Head(outgoings)
             m == edge.target
             rest == list_remove(edges, edge)
             incomings == \E i \in 1..Len(rest) : rest[i].target = m
         IN sort_visit(Tail(outgoings), rest,
                       IF ~incomings THEN Append(sources, node) ELSE sources,
                       node)

\* The loop "while sources": pop() takes the last source.
RECURSIVE sort_loop(_, _, _)
sort_loop(sorted, edges, sources) ==
    IF sources = <<>> THEN [sorted |-> sorted, edges |-> edges]
    ELSE LET node == sources[Len(sources)]
             outgoings == SelectSeq(edges, LAMBDA edge : edge.origin = node)
             visited == sort_visit(outgoings, edges,
                                   SubSeq(sources, 1, Len(sources) - 1), node)
         IN sort_loop(Append(sorted, node), visited.edges, visited.sources)

\* A topological_sort that returns its list without looking at the edges left
topological_sort_ignoring_leftover(to_sort, edges) ==
    LET targets == {edges[i].target : i \in 1..Len(edges)}
        sources == SelectSeq(to_sort, LAMBDA node : node \notin targets)
        end == sort_loop(<<>>, edges, sources)
    IN [ok |-> TRUE, sorted |-> end.sorted]

\* topological_sort(to_sort, edges): the list returned (ok), or the
\* exception "Cycle" (not ok)
topological_sort(to_sort, edges) ==
    LET targets == {edges[i].target : i \in 1..Len(edges)}
        sources == SelectSeq(to_sort, LAMBDA node : node \notin targets)
        end == sort_loop(<<>>, edges, sources)
    IN [ok |-> end.edges = <<>>,
        sorted |-> IF end.edges = <<>> THEN end.sorted ELSE <<>>]

\* A call of topological_sort that has not run yet / the call after it ran
SortCall(to_sort, edges) ==
    [op |-> "topological_sort", to_sort |-> to_sort, edges |-> edges,
     done |-> FALSE, ok |-> FALSE, sorted |-> <<>>]

sort ==
    /\ last.op = "topological_sort"
    /\ ~last.done
    /\ last' = [last EXCEPT !.done = TRUE,
                            !.ok = topological_sort(last.to_sort, last.edges).ok,
                            !.sorted = topological_sort(last.to_sort, last.edges).sorted]
    /\ UNCHANGED memvars

\* ------------------------------------------------------------------ inputs
Frames == 1..Len(frames)

OpenFrames == {h \in Frames : is_mutable(frames[h].state)}

Refs == 1..Len(heap)

\* Object IDs a caller names: the ID of every snapshot in existence, and 1,
\* the version of the first frame, for an ID that no object has.
ObjectIDs == {heap[r].id : r \in Refs} \cup {1}

\* Versions a caller names: the version of every frame in existence, and 0
\* for a version that no frame has.
Versions == {frames[h].version : h \in Frames} \cup {0}

\* Component lists a caller passes at creation
ComponentLists == {<<>>, <<[kind |-> "A", value |-> MaxValue]>>}

\* An edge a caller constructs itself, Edge(id, snapshot_id, origin, target),
\* between endpoints that no frame contains
ConstructedEdge ==
    NewSnapshot(MaxInput + 1, MaxInput + 1, "edge", MaxInput, MaxInput, "none", <<>>)

\* Room left by the bounds for one more frame / one more snapshot / removal
RoomForFrame(n, ids) == Len(frames) < n /\ identity_generator <= ids

RoomForSnapshot(n, ids) == Len(heap) < n /\ identity_generator + 1 <= ids

RoomForMutation(h, id, n, ids) ==
    mutable_object_case(frames[h], id) \in {"derive", "underivable"}
        => (Len(heap) < n /\ identity_generator <= ids)

RoomForRemoval(h) == Len(frames[h].removed_objects) < MaxRemoved

\* ------------------------------------------------------- the memory's history
\* Frames are derived from the current version, an object is created in an
\* open frame, frames are accepted into the history or discarded,
\* and the history is walked with undo and redo.
Next ==
    \/ RoomForFrame(MaxFrames, MaxId) /\ derive_frame(0, 0)
    \/ \E h \in OpenFrames :
          RoomForSnapshot(MaxHistoryHeap, MaxId) /\ create_object(h, "none", <<>>)
    \/ \E h \in OpenFrames : accept(h, TRUE)
    \/ \E h \in OpenFrames : discard(h)
    \/ \E version \in Versions : undo(version)
    \/ \E version \in Versions : redo(version)

Spec == Init /\ [][Next]_vars

\* ------------------------------------------------------------ copy on write
\* One frame is open at a time.  A frame derived from the current version
\* shares its snapshots; objects are created, derived, changed and removed
\* in the open frame, which is accepted into the history or discarded.
NextFrame ==
    \/ OpenFrames = {} /\ RoomForFrame(MaxEditFrames, MaxEditId) /\ derive_frame(0, 0)
    \/ \E h \in OpenFrames, components \in ComponentLists :
          RoomForSnapshot(MaxHeap, MaxEditId) /\ create_object(h, "none", components)
    \/ \E h \in OpenFrames, id \in ObjectIDs :
          RoomForMutation(h, id, MaxHeap, MaxEditId) /\ mutable_object(h, id)
    \/ \E h \in OpenFrames, id \in ObjectIDs, value \in 1..MaxValue :
          RoomForMutation(h, id, MaxHeap, MaxEditId) /\ set_component(h, id, "A", value)
    \/ \E h \in OpenFrames, id \in ObjectIDs : RoomForRemoval(h) /\ remove_cascading(h, id)
    \/ \E h \in OpenFrames : accept(h, TRUE)
    \/ \E h \in OpenFrames : discard(h)

SpecFrame == Init /\ [][NextFrame]_vars

\* ------------------------------------------------------------ graph editing
\* One frame is open at a time.  Nodes and edges are created through the
\* graph view, edges are inserted as copies of existing ones, an edge built
\* by the caller is inserted directly, nodes are removed, and the frame is
\* accepted or discarded.
NextGraph ==
    \/ OpenFrames = {} /\ RoomForFrame(MaxGraphFrames, MaxGraphId) /\ derive_frame(0, 0)
    \/ \E h \in OpenFrames, owned \in BOOLEAN :
          Len(heap) < MaxGraphHeap /\ insert_new(h, ConstructedEdge, owned)
    \/ \E h \in OpenFrames :
          RoomForSnapshot(MaxGraphHeap, MaxGraphId) /\ create_node(h, "Stock", <<>>)
    \/ \E h \in OpenFrames, origin, target \in ObjectIDs :
          RoomForSnapshot(MaxGraphHeap, MaxGraphId)
              /\ create_edge(h, "Arrow", origin, target, <<>>)
    \/ \E h \in OpenFrames, ref \in Refs :
          /\ heap[ref].structural = "edge"
          /\ RoomForSnapshot(MaxGraphHeap, MaxGraphId)
          /\ insert_edge(h, heap[ref])
    \/ \E h \in OpenFrames, id \in ObjectIDs : RoomForRemoval(h) /\ remove_cascading(h, id)
    \/ \E h \in OpenFrames : accept(h, TRUE)
    \/ \E h \in OpenFrames : discard(h)

SpecGraph == Init /\ [][NextGraph]_vars
\* ------------------------------------------------------------ topological sort
\* The lists of distinct node IDs and the lists of edges between node IDs
\* that are handed to topological_sort
SortNodes == 1..MaxSortNodes

NodeLists ==
    {to_sort \in UNION {[1..n -> SortNodes] : n \in 0..MaxSortNodes} :
        \A i, j \in 1..Len(to_sort) : i # j => to_sort[i] # to_sort[j]}

EdgeLists ==
    {[i \in 1..Len(ends) |-> [id |-> i, origin |-> ends[i][1], target |-> ends[i][2]]] :
        ends \in UNION {[1..n -> SortNodes \X SortNodes] : n \in 0..MaxSortEdges}}

InitSort ==
    /\ InitMemory
    /\ \E to_sort \in NodeLists, edges \in EdgeLists : last = SortCall(to_sort, edges)

NextSort == sort

SpecSort == InitSort /\ [][NextSort]_vars
\* ------------------------------------------------- versions off the timeline
\* Frames are derived from the current version and accepted into the history
\* or registered without it, or discarded, and the history is walked with
\* undo and redo.
NextTimeline ==
    \/ RoomForFrame(MaxFrames, MaxId) /\ derive_frame(0, 0)
    \/ \E h \in OpenFrames, append_history \in BOOLEAN : accept(h, append_history)
    \/ \E h \in OpenFrames : discard(h)
    \/ \E version \in Versions : undo(version)
    \/ \E version \in Versions : redo(version)

SpecTimeline == Init /\ [][NextTimeline]_vars

\* ------------------------------------------------------------ save and load
\* Frames are derived, filled with an object, accepted with or without the
\* history, the history is walked back, and the memory is saved and loaded.
NextStore ==
    \/ RoomForFrame(MaxFrames, MaxId) /\ derive_frame(0, 0)
    \/ \E h \in OpenFrames :
          RoomForSnapshot(MaxHistoryHeap, MaxId) /\ create_object(h, "none", <<>>)
    \/ \E h \in OpenFrames, append_history \in BOOLEAN : accept(h, append_history)
    \/ \E version \in Versions : undo(version)
    \/ restore

SpecStore == Init /\ [][NextStore]_vars

\* ------------------------------------------------------------ version reuse
\* Frames are derived from the current or from the first version, under a
\* version the generator issues or under a version the caller names (the
\* version of a frame made earlier, which the memory accepts when it no longer
\* contains it); objects are created, frames are accepted and discarded.
NextReuse ==
    \/ \E original_version \in {0, 1}, version \in Versions :
          RoomForFrame(MaxReuseFrames, MaxReuseId)
              /\ derive_frame(original_version, version)
    \/ \E h \in OpenFrames :
          RoomForSnapshot(MaxReuseHeap, MaxReuseId) /\ create_object(h, "none", <<>>)
    \/ \E h \in OpenFrames : accept(h, TRUE)
    \/ \E h \in OpenFrames : discard(h)

SpecReuse == Init /\ [][NextReuse]_vars

\* ------------------------------------------------------------ component sets
\* A component set used on its own: `last` holds the set, the set before the
\* last set() call, and the kind and value of the component that call stored.
ComponentSetCall(before, kind, value, components, calls) ==
    [op |-> "ComponentSet", before |-> before, kind |-> kind, value |-> value,
     components |-> components, calls |-> calls]

\* components.set(component)
set(kind, value) ==
    /\ last.op = "ComponentSet"
    /\ last' = ComponentSetCall(last.components, kind, value,
                                component_set(last.components, kind, value),
                                last.calls + 1)
    /\ UNCHANGED memvars

\* The component lists handed to ComponentSet(components)
InitialComponents ==
    UNION {[1..n -> [kind : Kinds, value : 1..MaxComponentValue]] :
              n \in 0..MaxInitialComponents}

InitComponents ==
    /\ InitMemory
    /\ \E components \in InitialComponents :
          last = ComponentSetCall(NoComponents, "", 0,
                                  ComponentSetOf(components, NoComponents), 0)

NextComponents ==
    \E kind \in Kinds, value \in 1..MaxComponentValue :
        last.calls < MaxSetCalls /\ set(kind, value)

SpecComponents == InitComponents /\ [][NextComponents]_vars

\* ------------------------------------------------------- identity generator
\* The memory's identity generator used on its own: `last` holds the log of
\* the calls made on it, each with the identity returned or marked.  The
\* constructor of the memory has taken identity 1 for its first frame.
GeneratorLog(log) == [op |-> "identity_generator", log |-> log]

\* identity_generator.next()
generator_next ==
    /\ last.op = "identity_generator"
    /\ identity_generator' = next_state(identity_generator)
    /\ last' = GeneratorLog(Append(last.log,
                   [call |-> "next", id |-> next_id(identity_generator)]))
    /\ UNCHANGED <<heap, frames, stable_frames, mutable_frames, version_history,
                   current_version_index>>

\* identity_generator.mark_used(id)
generator_mark_used(id) ==
    /\ last.op = "identity_generator"
    /\ identity_generator' = mark_used(identity_generator, id)
    /\ last' = GeneratorLog(Append(last.log, [call |-> "mark_used", id |-> id]))
    /\ UNCHANGED <<heap, frames, stable_frames, mutable_frames, version_history,
                   current_version_index>>

InitIdentity ==
    /\ InitMemory
    /\ last = GeneratorLog(<<[call |-> "next", id |-> 1]>>)

NextIdentity ==
    \/ Len(last.log) <= MaxGeneratorCalls /\ generator_next
    \/ \E id \in 1..MaxMarked :
          Len(last.log) <= MaxGeneratorCalls /\ generator_mark_used(id)

SpecIdentity == InitIdentity /\ [][NextIdentity]_vars

\* ================================================================ properties
\* What a stable frame shows: the object IDs it contains, in order, with the
\* snapshot instance and the value of the snapshot held for each.
StableContent(h) ==
    [i \in 1..Len(frames[h].stable) |->
        [key |-> frames[h].stable[i].key,
         ref |-> frames[h].stable[i].ref,
         snapshot |-> heap[frames[h].stable[i].ref]]]

StableVersions == Keys(stable_frames)

Touched(h, id) ==
    /\ last'.frame = h
    /\ last'.arg = id
    /\ last'.op \in {"mutable_object", "set_component", "remove_cascading"}

\* C5: a frame obtained by derive_frame holds, for every object of the stable
\* frame it is derived from, the very same snapshot instance, not owned; an
\* object that a call does not derive, re-set or remove keeps that instance,
\* unchanged, in the frame; and accept hands the same instances to the stable
\* frame.
C5_UntouchedObjectsAreShared ==
    [][/\ (last'.op = "derive_frame" /\ last'.ok /\ derive_frame(0, 0)) =>
              frames'[Len(frames')].snapshots =
                  [i \in 1..Len(StableContent(current_frame)) |->
                      [key |-> StableContent(current_frame)[i].key,
                       ref |-> StableContent(current_frame)[i].ref,
                       owned |-> FALSE]]
       /\ \A h \in Frames : \A i \in 1..Len(frames[h].snapshots) :
              LET entry == frames[h].snapshots[i]
              IN (~entry.owned /\ ~Touched(h, entry.key)) =>
                     /\ HasKey(frames'[h].snapshots, entry.key)
                     /\ Lookup(frames'[h].snapshots, entry.key) = entry
                     /\ heap'[entry.ref] = heap[entry.ref]
       /\ \A h \in Frames :
              (last'.op = "accept" /\ last'.ok /\ accept(h, TRUE)) =>
                  frames'[h].stable =
                      [i \in 1..Len(frames[h].snapshots) |->
                          [key |-> frames[h].snapshots[i].key,
                           ref |-> frames[h].snapshots[i].ref]]
      ]_vars

\* C5 witness: an accepted frame that removed one object still holds another
\* object by the same instance, not owned, as an earlier accepted frame.
C5_Witness ==
    /\ last.op = "accept" /\ last.ok
    /\ frames[last.frame].removed_objects # <<>>
    /\ \E h \in Frames : \E i \in 1..Len(frames[last.frame].snapshots) :
          /\ h < last.frame
          /\ frames[h].accepted
          /\ ~frames[last.frame].snapshots[i].owned
          /\ \E j \in 1..Len(frames[h].stable) :
                /\ frames[h].stable[j].key = frames[last.frame].snapshots[i].key
                /\ frames[h].stable[j].ref = frames[last.frame].snapshots[i].ref
          /\ \E j \in 1..Len(frames[last.frame].stable) :
                frames[last.frame].stable[j].ref = frames[last.frame].snapshots[i].ref

Violators(f) ==
    {i \in 1..Len(f.snapshots) :
        \E dep \in structural_dependencies(heap[f.snapshots[i].ref]) :
            ~frame_contains(f, dep)}

\* C7: accept(frame) fails and registers nothing whenever a snapshot of the
\* frame, owned or not, derived in the frame or only inserted into it, has a
\* structural dependency that the frame does not contain.
C7_AcceptRefusesMissingDependency ==
    [][\A h \in Frames :
          (last'.op = "accept" /\ accept(h, TRUE) /\ Violators(frames[h]) # {}) =>
              /\ ~last'.ok
              /\ ~frames'[h].accepted
              /\ stable_frames' = stable_frames
      ]_vars

\* C8: create_edge and insert_edge fail when the origin or the target is not
\* contained in the frame, and leave the frame and every snapshot as they
\* were.
C8_EdgeNeedsEndpoints ==
    [][\A h \in Frames :
          /\ \A origin, target \in ObjectIDs :
                (/\ last'.op = "create_edge"
                 /\ \/ ~frame_contains(frames[h], origin)
                    \/ ~frame_contains(frames[h], target)
                 /\ create_edge(h, "Arrow", origin, target, <<>>))
                    => (~last'.ok /\ frames' = frames /\ heap' = heap)
          /\ \A ref \in Refs :
                (/\ last'.op = "insert_edge"
                 /\ heap[ref].structural = "edge"
                 /\ \/ ~frame_contains(frames[h], heap[ref].origin)
                    \/ ~frame_contains(frames[h], heap[ref].target)
                 /\ insert_edge(h, heap[ref]))
                    => (~last'.ok /\ frames' = frames /\ heap' = heap)
      ]_vars

\* C8 witness: create_edge has failed in an open frame that contains the
\* origin it was given but not the target.
C8_Witness ==
    /\ last.op = "create_edge" /\ ~last.ok
    /\ is_mutable(frames[last.frame].state)
    /\ frame_contains(frames[last.frame], last.arg)
    /\ ~frame_contains(frames[last.frame], last.ref)

\* C9: remove_cascading(N) on a mutable frame that contains N completes and
\* leaves the frame without N and without every object whose structural
\* dependencies include N, and with every other object it had.
C9_RemoveCascadingRemovesDependants ==
    [][\A h \in Frames : \A id \in ObjectIDs :
          (/\ last'.op = "remove_cascading"
           /\ remove_cascading(h, id)
           /\ is_mutable(frames[h].state)
           /\ frame_contains(frames[h], id)) =>
              /\ last'.ok
              /\ Keys(frames'[h].snapshots) =
                    Keys(frames[h].snapshots)
                        \ ({id} \cup {frames[h].snapshots[i].key :
                                          i \in dependants(frames[h], id)})
      ]_vars

\* ----------------------------------------------------------- topological sort
\* The pairs (a, b) such that a path of k or fewer of the edges leads from
\* a to b
RECURSIVE Paths(_, _)
Paths(edges, k) ==
    LET step == {<<edges[i].origin, edges[i].target>> : i \in 1..Len(edges)}
    IN IF k <= 1 THEN step
       ELSE LET shorter == Paths(edges, k - 1)
            IN shorter \cup {<<pq[1][1], pq[2][2]>> :
                                pq \in {x \in shorter \X step : x[1][2] = x[2][1]}}

IsDag(edges) == \A n \in SortNodes : <<n, n>> \notin Paths(edges, Len(edges))

\* The edges lie between nodes of the list
EdgesAmong(to_sort, edges) ==
    \A i \in 1..Len(edges) :
        /\ \E j \in 1..Len(to_sort) : to_sort[j] = edges[i].origin
        /\ \E j \in 1..Len(to_sort) : to_sort[j] = edges[i].target

\* C10: for a list of node IDs and edges among them that form a directed
\* acyclic graph, topological_sort returns a list that contains each given
\* node exactly once and in which the origin of every edge comes before its
\* target.
C10_SortOrdersDag ==
    (/\ last.op = "topological_sort"
     /\ last.done
     /\ EdgesAmong(last.to_sort, last.edges)
     /\ IsDag(last.edges)) =>
        /\ last.ok
        /\ Len(last.sorted) = Len(last.to_sort)
        /\ \A i \in 1..Len(last.to_sort) :
              \E j \in 1..Len(last.sorted) : last.sorted[j] = last.to_sort[i]
        /\ \A e \in 1..Len(last.edges) :
              \E i, j \in 1..Len(last.sorted) :
                  /\ i < j
                  /\ last.sorted[i] = last.edges[e].origin
                  /\ last.sorted[j] = last.edges[e].target

\* C11: when the given edges contain a directed cycle, topological_sort
\* raises the cycle error and returns no list.
C11_SortReportsCycle ==
    (/\ last.op = "topological_sort"
     /\ last.done
     /\ ~IsDag(last.edges)) =>
        (~last.ok /\ last.sorted = <<>>)

\* C11 witness: topological_sort has raised for a list of two nodes that
\* holds a source node and edges that lead from it into a cycle of two nodes.
C11_Witness ==
    /\ last.op = "topological_sort" /\ last.done /\ ~last.ok
    /\ ~IsDag(last.edges)
    /\ Len(last.edges) >= 2
    /\ \E i, j \in 1..Len(last.edges) :
          /\ last.edges[i].origin # last.edges[i].target
          /\ last.edges[i].origin = last.edges[j].target
          /\ last.edges[i].target = last.edges[j].origin
    /\ \E i \in 1..Len(last.to_sort) :
          \A e \in 1..Len(last.edges) : last.edges[e].target # last.to_sort[i]

\* ------------------------------------------------------- creation and accept
\* The object id was created in frame h: the frame recorded, as its derived
\* object for id, the first snapshot instance ever made with that object ID.
CreatedIn(h, id) ==
    /\ HasKey(frames[h].derived_objects, id)
    /\ \A r \in Refs :
          heap[r].id = id => Lookup(frames[h].derived_objects, id).ref <= r

\* C12: an object created in a mutable frame is contained in that frame and,
\* as long as the frame is open, in no stable frame, the current frame
\* included; after accept(frame) with history appended the current
\* frame is the accepted one and contains exactly the objects the mutable
\* frame contained at acceptance.
C12_CreatedObjectsAppearOnAccept ==
    [][\A h \in Frames :
          /\ \A components \in ComponentLists :
                (/\ last'.op = "create_object" /\ last'.ok
                 /\ create_object(h, "none", components)) =>
                    /\ frame_contains(frames'[h], last'.arg)
                    /\ ~HasKey(frames'[current_frame'].stable, last'.arg)
          /\ \A id \in ObjectIDs' :
                (CreatedIn(h, id)' /\ is_mutable(frames'[h].state)) =>
                    \A g \in Frames' : ~stable_contains(g, id)'
          /\ (last'.op = "accept" /\ last'.ok /\ accept(h, TRUE)) =>
                /\ current_version' = frames[h].version
                /\ current_frame' = h
                /\ \A id \in ObjectIDs :
                      stable_contains(current_frame, id)' <=> frame_contains(frames[h], id)
                /\ Keys(frames'[h].stable) = Keys(frames[h].snapshots)
      ]_vars

C14_NextNeverReissues ==
    last.op = "identity_generator" =>
        \A k \in 1..Len(last.log) :
            last.log[k].call = "next" =>
                \A j \in 1..(k - 1) :
                    /\ last.log[j].id # last.log[k].id
                    /\ last.log[j].call = "next" => last.log[j].id < last.log[k].id

\* C15: discard(frame) of an open mutable frame leaves version_history, the
\* cursor and the registered stable frames with their contents as they were;
\* afterwards contains_version(frame.version) is false and the objects
\* created in the discarded frame are in no stable frame.
C15_DiscardDropsFrame ==
    [][\A h \in Frames :
          (last'.op = "discard" /\ is_mutable(frames[h].state) /\ discard(h)) =>
              /\ last'.ok
              /\ version_history' = version_history
              /\ current_version_index' = current_version_index
              /\ stable_frames' = stable_frames
              /\ \A k \in 1..Len(stable_frames) :
                    StableContent(stable_frames[k].frame)' =
                        StableContent(stable_frames[k].frame)
              /\ ~contains_version(frames[h].version)'
              /\ \A id \in ObjectIDs :
                    CreatedIn(h, id) => \A g \in Frames : ~stable_contains(g, id)'
      ]_vars

C17_UndoRedoUnknownVersionFails ==
    [][\A version \in Versions :
          (/\ ~InHistory(version)
           /\ \/ last'.op = "undo" /\ undo(version)
              \/ last'.op = "redo" /\ redo(version)) =>
              /\ ~last'.ok
              /\ current_version_index' = current_version_index
              /\ version_history' = version_history
      ]_vars

\* C17 witness: undo has failed for a version that is registered in the
\* memory but was accepted without the history, with the cursor on the
\* second version of the history.
C17_Witness ==
    /\ last.op = "undo" /\ ~last.ok
    /\ HasKey(stable_frames, last.arg)
    /\ ~InHistory(last.arg)
    /\ Len(version_history) >= 2
    /\ current_version_index = 1

\* C18: accepting a frame that has no changes (nothing created, derived or
\* removed) does nothing: current_version and the set of all versions of the
\* memory are as before.
C18_EmptyAcceptDoesNothing ==
    [][\A h \in Frames :
          (/\ last'.op = "accept"
           /\ is_mutable(frames[h].state)
           /\ ~has_changes(frames[h])
           /\ accept(h, TRUE)) =>
              /\ current_version' = current_version
              /\ StableVersions' = StableVersions
      ]_vars

\* -------------------------------------------------------------- save and load
\* C19: saving a memory and loading it back yields a memory with the same
\* all_versions and the same version_history as the saved one, also when a
\* stable frame of the saved memory was accepted without the history.
C19_RestoreKeepsVersions ==
    last.op = "restore" =>
        /\ last.ok
        /\ last.all_versions = last.saved_versions
        /\ last.version_history = last.saved_history

\* -------------------------------------------------------------- component sets
\* C20: a component set holds at most one component per kind: after set(c)
\* get(kind of c) returns c, the components of the other kinds are as before,
\* and when a component of that kind was present the length of as_list() is
\* the same as before the call (one more when it was not).
C20_SetReplacesSameKind ==
    (last.op = "ComponentSet" /\ last.calls > 0) =>
        /\ component_has(last.components, last.kind)
        /\ component_get(last.components, last.kind) = last.value
        /\ \A other \in Kinds \ {last.kind} :
              component_get(last.components, other) = component_get(last.before, other)
        /\ as_list_len(last.components) =
              IF component_has(last.before, last.kind)
              THEN as_list_len(last.before)
              ELSE as_list_len(last.before) + 1
        /\ as_list_len(last.components) <= Cardinality(Kinds)

\* C20 witness: a set holding a component of each kind was given a component
\* of a kind it had, with another value; it holds the new one and its length
\* is still two.
C20_Witness ==
    /\ last.op = "ComponentSet" /\ last.calls = MaxSetCalls
    /\ component_has(last.before, last.kind)
    /\ component_get(last.before, last.kind) # last.value
    /\ component_get(last.components, last.kind) = last.value
    /\ as_list_len(last.before) = 2
    /\ as_list_len(last.components) = 2

\* ------------------------------------------------------- versions of frames
\* Frames are created empty or derived, under a version the generator issues
\* or one the caller names, from the current version or from the version of
\* any frame made so far (registered, still open, or discarded); frames are
\* accepted and discarded.
MaxVersionFrames == 4
MaxVersionId == 5

NextVersions ==
    \/ \E version \in Versions :
          RoomForFrame(MaxVersionFrames, MaxVersionId) /\ create_frame(version)
    \/ \E original_version \in Versions, version \in Versions :
          RoomForFrame(MaxVersionFrames, MaxVersionId)
              /\ derive_frame(original_version, version)
    \/ \E h \in OpenFrames : accept(h, TRUE)
    \/ \E h \in OpenFrames : discard(h)

SpecVersions == Init /\ [][NextVersions]_vars

\* C21: derive_frame fails and registers no frame when the requested version
\* is the version of a stable or of an open mutable frame of the memory, or
\* when original_version is not the version of a registered stable frame;
\* create_frame(version) fails and registers no frame when the version is in
\* the memory, and otherwise returns a frame whose version the memory contains.
C21_FrameVersionPreconditions ==
    [][ /\ last'.op = "derive_frame" =>
            LET version == last'.arg
                original_version == last'.ref
            IN (\/ version # 0 /\ (\/ HasKey(stable_frames, version)
                                   \/ version \in DOMAIN mutable_frames)
                \/ original_version # 0 /\ ~HasKey(stable_frames, original_version))
               => /\ ~last'.ok
                  /\ frames' = frames
                  /\ mutable_frames' = mutable_frames
                  /\ stable_frames' = stable_frames
        /\ last'.op = "create_frame" =>
            LET version == last'.arg
            IN IF version # 0 /\ (\/ HasKey(stable_frames, version)
                                  \/ version \in DOMAIN mutable_frames)
               THEN /\ ~last'.ok
                    /\ frames' = frames
                    /\ mutable_frames' = mutable_frames
                    /\ stable_frames' = stable_frames
               ELSE /\ last'.ok
                    /\ version # 0 => frames'[last'.frame].version = version
                    /\ \/ HasKey(stable_frames', frames'[last'.frame].version)
                       \/ frames'[last'.frame].version \in DOMAIN mutable_frames'
      ]_vars

\* derive_frame has just failed on an original that is still an open frame
C21_Witness ==
    /\ last.op = "derive_frame"
    /\ ~last.ok
    /\ last.arg = 0
    /\ last.ref \in DOMAIN mutable_frames
    /\ \E h \in Frames : frames[h].accepted /\ frames[h].version > 1

\* ------------------------------------------------------ referential integrity
\* FrameBase.has_referential_integrity(): next() takes the first violator from
\* the generator and compares it with None (0 here, which no object ID
\* equals); next() on a generator that yields nothing raises StopIteration.
has_referential_integrity(f) ==
    LET violators == Violators(f)
        first == CHOOSE i \in violators : \A j \in violators : i <= j
    IN IF violators = {}
       THEN [raised |-> TRUE, value |-> FALSE]
       ELSE [raised |-> FALSE, value |-> (f.snapshots[first].key = 0)]

\* frame.has_referential_integrity() called on the frame with handle h
integrity(h) ==
    /\ LET result == has_referential_integrity(frames[h])
       IN last' = CallOf("has_referential_integrity", h,
                         Cardinality(Violators(frames[h])), 0,
                         result.value, ~result.raised)
    /\ UNCHANGED memvars

\* Graph editing, with the integrity of every frame made so far queried
NextIntegrity ==
    \/ NextGraph
    \/ \E h \in Frames : integrity(h)

SpecIntegrity == Init /\ [][NextIntegrity]_vars

\* C22: has_referential_integrity() returns, and it returns true exactly when
\* no snapshot of the frame has a structural dependency missing from the
\* frame.
C22_IntegrityIsNoViolators ==
    last.op = "has_referential_integrity" =>
        /\ last.ok
        /\ last.flag <=> (Violators(frames[last.frame]) = {})

\* ------------------------------------------------------------ neighbourhoods
MaxNeighborFrames == 2
MaxNeighborHeap == 3
MaxNeighborId == 8

INCOMING == "incoming"
OUTGOING == "outgoing"

\* MutableFrame.snapshots: the snapshot instances in the order of the dict
frame_snapshots(f) == [i \in 1..Len(f.snapshots) |-> f.snapshots[i].ref]

\* MutableUnboundGraph.edges(): the snapshots that are instances of Edge
graph_edges(f) == SelectSeq(frame_snapshots(f), LAMBDA r : heap[r].structural = "edge")

\* Graph.incoming(id) / Graph.outgoing(id)
incoming(f, id) == SelectSeq(graph_edges(f), LAMBDA r : heap[r].target = id)

outgoing(f, id) == SelectSeq(graph_edges(f), LAMBDA r : heap[r].origin = id)

\* EdgePredicate.match_edge: AnyPredicate ("any") or
\* HasComponentPredicate(kind)
match_edge(predicate, edge) ==
    IF predicate = "any" THEN TRUE ELSE component_has(edge.components, predicate)

\* NeighborhoodSelector(predicate, direction)
NeighborhoodSelector(predicate, direction) ==
    [predicate |-> predicate, direction |-> direction]

Selectors ==
    {NeighborhoodSelector(predicate, direction) :
        predicate \in {"any", "A"}, direction \in {INCOMING, OUTGOING}}

\* Graph.select_neighbors(id, selector): Neighborhood(graph, selector,
\* node_id, edges)
select_neighbors(f, id, selector) ==
    [node_id |-> id,
     selector |-> selector,
     edges |-> IF selector.direction = INCOMING THEN incoming(f, id)
               ELSE outgoing(f, id)]

\* MutableUnboundGraph.node(id): IDError when the frame has no such object,
\* TypeError when the object is not a Node
graph_node(f, id) ==
    IF ~frame_contains(f, id) THEN [raised |-> TRUE, value |-> 0]
    ELSE LET ref == Lookup(f.snapshots, id).ref
         IN IF heap[ref].structural # "node" THEN [raised |-> TRUE, value |-> 0]
            ELSE [raised |-> FALSE, value |-> ref]

\* The endpoint of an edge that Neighborhood.nodes looks up
neighbor_id(hood, edge) ==
    IF hood.selector.direction = INCOMING THEN edge.origin ELSE edge.target

\* Neighborhood.nodes, iterated to the end: the nodes yielded, and whether
\* the iteration raised
neighborhood_nodes(f, hood) ==
    LET found == [i \in 1..Len(hood.edges) |->
                     graph_node(f, neighbor_id(hood, heap[hood.edges[i]]))]
    IN [raised |-> \E i \in 1..Len(found) : found[i].raised,
        value |-> [i \in 1..Len(found) |-> found[i].value]]

\* Neighborhood.first_edge: next(iter(self.edges)) raises StopIteration when
\* there is no edge
first_edge(hood) ==
    IF hood.edges = <<>> THEN [raised |-> TRUE, value |-> 0]
    ELSE [raised |-> FALSE, value |-> hood.edges[1]]

\* Neighborhood.first_node: next(iter(self.nodes))
first_node(f, hood) ==
    IF hood.edges = <<>> THEN [raised |-> TRUE, value |-> 0]
    ELSE graph_node(f, neighbor_id(hood, heap[hood.edges[1]]))

\* The record of a query on the graph of frame h
Query(op, h, id, selector, ok, edges, nodes) ==
    [op |-> op, frame |-> h, arg |-> id, selector |-> selector, ok |-> ok,
     edges |-> edges, nodes |-> nodes]

\* hood = frame.graph.select_neighbors(id, selector); list(hood.edges) and,
\* on a second neighbourhood, list(hood.nodes)
neighbors(h, id, selector) ==
    /\ LET hood == select_neighbors(frames[h], id, selector)
           nodes == neighborhood_nodes(frames[h], hood)
       IN last' = Query("select_neighbors", h, id, selector, ~nodes.raised,
                        hood.edges, nodes.value)
    /\ UNCHANGED memvars

\* frame.graph.select_neighbors(id, selector).first_edge
neighbors_first_edge(h, id, selector) ==
    /\ LET result == first_edge(select_neighbors(frames[h], id, selector))
       IN last' = Query("first_edge", h, id, selector, ~result.raised,
                        <<result.value>>, <<>>)
    /\ UNCHANGED memvars

\* frame.graph.select_neighbors(id, selector).first_node
neighbors_first_node(h, id, selector) ==
    /\ LET result == first_node(frames[h], select_neighbors(frames[h], id, selector))
       IN last' = Query("first_node", h, id, selector, ~result.raised,
                        <<>>, <<result.value>>)
    /\ UNCHANGED memvars

\* Nodes and edges, with and without a component of kind A, are created in
\* one open frame at a time, the frame is accepted, and the neighbourhoods of
\* the objects are queried.
NextNeighbors ==
    \/ OpenFrames = {} /\ RoomForFrame(MaxNeighborFrames, MaxNeighborId) /\ derive_frame(0, 0)
    \/ \E h \in OpenFrames :
          RoomForSnapshot(MaxNeighborHeap, MaxNeighborId) /\ create_node(h, "Stock", <<>>)
    \/ \E h \in OpenFrames, origin, target \in ObjectIDs, components \in ComponentLists :
          /\ origin # target
          /\ RoomForSnapshot(MaxNeighborHeap, MaxNeighborId)
          /\ create_edge(h, "Arrow", origin, target, components)
    \/ \E h \in OpenFrames : accept(h, TRUE)
    \/ \E h \in Frames, id \in ObjectIDs, selector \in Selectors :
          neighbors(h, id, selector)
    \/ \E h \in Frames, id \in ObjectIDs, selector \in Selectors :
          neighbors_first_edge(h, id, selector)
    \/ \E h \in Frames, id \in ObjectIDs, selector \in Selectors :
          neighbors_first_node(h, id, selector)

SpecNeighbors == Init /\ [][NextNeighbors]_vars

\* The edges of frame f that are incident to id in the selector's direction
\* and match the selector's predicate
MatchingEdges(f, id, selector) ==
    {r \in {f.snapshots[i].ref : i \in 1..Len(f.snapshots)} :
        /\ heap[r].structural = "edge"
        /\ IF selector.direction = INCOMING THEN heap[r].target = id
           ELSE heap[r].origin = id
        /\ match_edge(selector.predicate, heap[r])}

\* C23: the edges of select_neighbors(id, selector) are exactly the edges of
\* the graph incident to id in the selector's direction that satisfy the
\* selector's predicate, and its nodes are the other endpoints of those edges.
C23_NeighborhoodIsMatchingEdges ==
    last.op = "select_neighbors" =>
        LET f == frames[last.frame]
            matching == MatchingEdges(f, last.arg, last.selector)
        IN /\ {last.edges[i] : i \in 1..Len(last.edges)} = matching
           /\ last.ok =>
                {heap[last.nodes[i]].id : i \in 1..Len(last.nodes)} =
                {IF last.selector.direction = INCOMING THEN heap[r].origin
                 ELSE heap[r].target : r \in matching}

\* C24: first_edge and first_node of a neighbourhood without an edge return
\* None and do not raise.
C24_FirstOfEmptyIsNone ==
    (/\ last.op \in {"first_edge", "first_node"}
     /\ select_neighbors(frames[last.frame], last.arg, last.selector).edges = <<>>)
        => /\ last.ok
           /\ last.edges \o last.nodes = <<0>>

\* C25: when accept(frame) of an open frame fails, the stable frames, the
\* history and the cursor are as before and the frame is still an open
\* mutable frame registered with the memory, which discard(frame) can remove.
C25_FailedAcceptLeavesFrameOpen ==
    [][(last'.op = "accept" /\ ~last'.ok /\ is_mutable(frames[last'.frame].state)) =>
          /\ stable_frames' = stable_frames
          /\ version_history' = version_history
          /\ current_version_index' = current_version_index
          /\ is_mutable(frames'[last'.frame].state)
          /\ frames'[last'.frame].version \in DOMAIN mutable_frames'
      ]_vars

\* ------------------------------------------------------------------ ownership
\* One frame is open at a time and is edited only by creating objects, nodes
\* and edges, by inserting copies of existing nodes and edges, and by deriving
\* inherited objects for change; the frame is then accepted.
NextOwned ==
    \/ OpenFrames = {} /\ RoomForFrame(MaxEditFrames, MaxEditId) /\ derive_frame(0, 0)
    \/ \E h \in OpenFrames, components \in ComponentLists :
          RoomForSnapshot(MaxHeap, MaxEditId) /\ create_object(h, "none", components)
    \/ \E h \in OpenFrames :
          RoomForSnapshot(MaxHeap, MaxEditId) /\ create_node(h, "Stock", <<>>)
    \/ \E h \in OpenFrames, origin, target \in ObjectIDs :
          RoomForSnapshot(MaxHeap, MaxEditId) /\ create_edge(h, "Arrow", origin, target, <<>>)
    \/ \E h \in OpenFrames, ref \in Refs :
          /\ heap[ref].structural = "node"
          /\ RoomForSnapshot(MaxHeap, MaxEditId)
          /\ insert_node(h, heap[ref])
    \/ \E h \in OpenFrames, ref \in Refs :
          /\ heap[ref].structural = "edge"
          /\ RoomForSnapshot(MaxHeap, MaxEditId)
          /\ insert_edge(h, heap[ref])
    \/ \E h \in OpenFrames, id \in ObjectIDs :
          RoomForMutation(h, id, MaxHeap, MaxEditId) /\ mutable_object(h, id)
    \/ \E h \in OpenFrames, id \in ObjectIDs, value \in 1..MaxValue :
          RoomForMutation(h, id, MaxHeap, MaxEditId) /\ set_component(h, id, "A", value)
    \/ \E h \in OpenFrames : accept(h, TRUE)

SpecOwned == Init /\ [][NextOwned]_vars

\* C26: a snapshot that create_object, create_node, create_edge, insert_node
\* or insert_edge has put into a frame, or that mutable_object or
\* set_component has derived in it, is recorded as owned by the frame, and
\* accept of an open frame edited only through these operations completes.
C26_CreatedSnapshotsAreOwned ==
    [][ /\ (/\ last'.op \in {"create_object", "create_node", "create_edge",
                            "insert_node", "insert_edge",
                            "mutable_object", "set_component"}
            /\ last'.ok)
           => Lookup(frames'[last'.frame].snapshots, last'.arg).owned
        /\ (last'.op = "accept" /\ is_mutable(frames[last'.frame].state))
           => /\ last'.ok
              /\ frames'[last'.frame].accepted
      ]_vars

\* ------------------------------------------------------- rebuilding frames
MaxRebuildVersion == 3
MaxRebuildFrames == 3
MaxRebuildHeap == 2

\* ObjectSnapshot(id, snapshot_id) as the loader constructs it from a record
LoadedSnapshot(id) == NewSnapshot(id, id, "node", 0, 0, "none", <<>>)

\* Frames are created under a version the caller names, snapshots that the
\* caller has just constructed are inserted (as owned, or as not owned the way
\* the loader does), snapshots that exist already are inserted as not owned,
\* and the frames are accepted.
NextRebuild ==
    \/ \E version \in 0..MaxRebuildVersion :
          RoomForFrame(MaxRebuildFrames, MaxRebuildVersion + 1) /\ create_frame(version)
    \/ \E h \in OpenFrames, id \in 1..MaxInput, owned \in BOOLEAN :
          Len(heap) < MaxRebuildHeap /\ insert_new(h, LoadedSnapshot(id), owned)
    \/ \E h \in OpenFrames, ref \in Refs : insert(h, ref, FALSE)
    \/ \E h \in OpenFrames : accept(h, TRUE)

SpecRebuild == Init /\ [][NextRebuild]_vars

\* A frame that holds nothing but snapshots inserted as not owned
OnlyUnowned(f) ==
    /\ f.derived_objects = <<>>
    /\ \A i \in 1..Len(f.snapshots) : ~f.snapshots[i].owned

\* C27: accept of an open frame that was made by create_frame and filled by
\* insert(snapshot, owned=false) alone completes and registers a stable frame
\* of the frame's version that holds exactly the inserted snapshots, whether
\* the snapshots had been frozen before or were freshly constructed.
C27_RebuiltFrameIsAccepted ==
    [][(/\ last'.op = "accept"
        /\ is_mutable(frames[last'.frame].state)
        /\ OnlyUnowned(frames[last'.frame]))
       => /\ last'.ok
          /\ HasKey(stable_frames', last'.arg)
          /\ Lookup(stable_frames', last'.arg).frame = last'.frame
          /\ frames'[last'.frame].stable = StableFrame(frames[last'.frame])
      ]_vars

\* --------------------------------------------------- the life of a snapshot
MaxSnapshotHeap == 2
MaxSnapshotFrames == 2

\* Node(id, snapshot_id, type, components) / Edge(id, snapshot_id, origin,
\* target, type) as a caller constructs them; the snapshot ID is a fresh one
construct(structural, id) ==
    /\ LET ref == Len(heap) + 1
           snapshot == IF structural = "edge"
                       THEN NewSnapshot(id, ref, "edge", MaxInput, 1, "Arrow", <<>>)
                       ELSE NewSnapshot(id, ref, "node", 0, 0, "Stock",
                                        <<[kind |-> "A", value |-> MaxValue]>>)
       IN /\ heap' = Append(heap, snapshot)
          /\ last' = CallOf("construct", 0, id, ref, FALSE, TRUE)
    /\ UNCHANGED <<identity_generator, frames, stable_frames, mutable_frames,
                   version_history, current_version_index>>

\* Mutant: make_transient without its assertion
make_transient_allowed_always(s) == TRUE

\* ObjectSnapshot.make_transient: assert self.state == VersionState.UNSTABLE
make_transient_allowed(s) == s.state = UNSTABLE

\* snapshot.make_transient()
make_transient(ref) ==
    /\ IF make_transient_allowed(heap[ref])
       THEN /\ heap' = [heap EXCEPT ![ref].state = TRANSIENT]
            /\ last' = CallOf("make_transient", 0, 0, ref, FALSE, TRUE)
       ELSE /\ heap' = heap
            /\ last' = CallOf("make_transient", 0, 0, ref, FALSE, FALSE)
    /\ UNCHANGED <<identity_generator, frames, stable_frames, mutable_frames,
                   version_history, current_version_index>>

\* snapshot.freeze()
freeze(ref) ==
    /\ heap' = [heap EXCEPT ![ref].state = FROZEN]
    /\ last' = CallOf("freeze", 0, 0, ref, FALSE, TRUE)
    /\ UNCHANGED <<identity_generator, frames, stable_frames, mutable_frames,
                   version_history, current_version_index>>

\* The record of a call snapshot.derive(snapshot_id, id) on the instance
\* `ref`: `derived` is the instance returned, 0 when the call raised
DeriveCall(ref, snapshot_id, id, derived, ok) ==
    [op |-> "derive", ref |-> ref, snapshot_id |-> snapshot_id, arg |-> id,
     derived |-> derived, ok |-> ok]

\* snapshot.derive(snapshot_id, id) with a fresh snapshot ID; id = 0 is None
derive_snapshot(ref, id) ==
    /\ LET snapshot_id == Len(heap) + 1
       IN IF derive_allowed(heap[ref])
          THEN /\ heap' = Append(heap, derive(heap[ref], snapshot_id, id))
               /\ last' = DeriveCall(ref, snapshot_id, id, Len(heap) + 1, TRUE)
          ELSE /\ heap' = heap
               /\ last' = DeriveCall(ref, snapshot_id, id, 0, FALSE)
    /\ UNCHANGED <<identity_generator, frames, stable_frames, mutable_frames,
                   version_history, current_version_index>>

\* Nodes and edges of object ID 1 are constructed, made transient, frozen
\* and derived, under the same or under another object ID, by the caller;
\* they are inserted as owned into a frame derived from the current
\* version, and the frame is accepted.
NextSnapshot ==
    \/ \E structural \in {"node", "edge"} :
          Len(heap) < MaxSnapshotHeap /\ construct(structural, 1)
    \/ \E ref \in Refs : make_transient(ref)
    \/ \E ref \in Refs : freeze(ref)
    \/ \E ref \in Refs, id \in {0, MaxInput} :
          Len(heap) < MaxSnapshotHeap /\ derive_snapshot(ref, id)
    \/ OpenFrames = {} /\ RoomForFrame(MaxSnapshotFrames, MaxSnapshotFrames + 1)
          /\ derive_frame(0, 0)
    \/ \E h \in OpenFrames, ref \in Refs : insert(h, ref, TRUE)
    \/ \E h \in OpenFrames : accept(h, TRUE)

SpecSnapshot == Init /\ [][NextSnapshot]_vars

\* C28: derive fails, making no snapshot, unless the snapshot is Transient or
\* Frozen; when it succeeds the result is Unstable, has the given snapshot
\* ID, the given object ID or else the original's, the original's type and
\* component values and, for an edge, the original's origin and target, and
\* the original is as it was.
C28_DeriveCopiesSnapshot ==
    [][last'.op = "derive" =>
          LET original == heap[last'.ref]
          IN IF ~can_derive(original.state)
             THEN /\ ~last'.ok
                  /\ heap' = heap
             ELSE /\ last'.ok
                  /\ last'.derived = Len(heap) + 1
                  /\ heap'[last'.ref] = original
                  /\ LET derived == heap'[last'.derived]
                     IN /\ derived.state = UNSTABLE
                        /\ derived.snapshot_id = last'.snapshot_id
                        /\ derived.id = (IF last'.arg # 0 THEN last'.arg ELSE original.id)
                        /\ derived.type = original.type
                        /\ derived.components = original.components
                        /\ derived.structural = original.structural
                        /\ derived.origin = original.origin
                        /\ derived.target = original.target
      ]_vars

\* C29: no snapshot goes from Frozen to another state or from Transient to
\* Unstable; make_transient fails, changing nothing, unless the state is
\* Unstable, and then makes the snapshot Transient; freeze of a Frozen
\* snapshot changes nothing.
C29_SnapshotStateOnlyAdvances ==
    [][ /\ \A ref \in Refs :
              /\ heap[ref].state = FROZEN => heap'[ref].state = FROZEN
              /\ heap[ref].state = TRANSIENT => heap'[ref].state # UNSTABLE
        /\ last'.op = "make_transient" =>
              IF heap[last'.ref].state = UNSTABLE
              THEN last'.ok /\ heap'[last'.ref].state = TRANSIENT
              ELSE ~last'.ok /\ heap' = heap
        /\ (last'.op = "freeze" /\ heap[last'.ref].state = FROZEN) =>
              last'.ok /\ heap' = heap
      ]_vars

\* make_transient has just been refused on a snapshot that accept has frozen
C29_Witness ==
    /\ last.op = "make_transient"
    /\ ~last.ok
    /\ heap[last.ref].state = FROZEN
    /\ \E h \in Frames :
          /\ frames[h].accepted
          /\ \E i \in 1..Len(frames[h].stable) : frames[h].stable[i].ref = last.ref
    /\ \E ref \in Refs : heap[ref].state = TRANSIENT

\* ------------------------------------------------------------ frozen frames
MaxFrozenFrames == 2
MaxFrozenHeap == 1
MaxFrozenId == 5

\* frame.freeze() called on the frame with handle h
freeze_frame(h) ==
    LET f == frames[h]
    IN IF ~is_mutable(f.state)
       THEN /\ last' = Call("freeze", h, f.version, FALSE)
            /\ UNCHANGED memvars
       ELSE /\ heap' = frozen_heap(f)
            /\ frames' = [frames EXCEPT ![h].state = FROZEN]
            /\ last' = Call("freeze", h, f.version, TRUE)
            /\ UNCHANGED <<identity_generator, stable_frames, mutable_frames,
                           version_history, current_version_index>>

\* Frames are derived one at a time and objects are created in the open
\* frame; every operation that changes a frame is then called on every frame
\* made so far, open, accepted or discarded.
NextFrozen ==
    \/ OpenFrames = {} /\ RoomForFrame(MaxFrozenFrames, MaxFrozenId) /\ derive_frame(0, 0)
    \/ \E h \in OpenFrames :
          RoomForSnapshot(MaxFrozenHeap, MaxFrozenId) /\ create_object(h, "none", <<>>)
    \/ \E h \in Frames, ref \in Refs : insert(h, ref, FALSE)
    \/ \E h \in Frames, ref \in Refs :
          /\ is_mutable(frames[h].state) => RoomForSnapshot(MaxFrozenHeap, MaxFrozenId)
          /\ insert_derived("insert_derived", h, heap[ref], 0)
    \/ \E h \in Frames, id \in ObjectIDs :
          RoomForMutation(h, id, MaxFrozenHeap, MaxFrozenId) /\ mutable_object(h, id)
    \/ \E h \in Frames, id \in ObjectIDs :
          RoomForMutation(h, id, MaxFrozenHeap, MaxFrozenId)
              /\ set_component(h, id, "A", MaxValue)
    \/ \E h \in Frames, id \in ObjectIDs : RoomForRemoval(h) /\ remove_cascading(h, id)
    \/ \E h \in Frames : freeze_frame(h)
    \/ \E h \in Frames : accept(h, TRUE)
    \/ \E h \in Frames : discard(h)

SpecFrozen == Init /\ [][NextFrozen]_vars

\* C30: a frame that is frozen stays frozen, and insert, insert_derived,
\* mutable_object, set_component, remove_cascading, freeze, accept and discard
\* called on a frozen frame fail and leave the frame, the snapshots, the
\* stable frames, the history and the cursor as they were.
C30_FrozenFrameRefusesChanges ==
    [][\A h \in Frames :
          ~is_mutable(frames[h].state) =>
              /\ ~is_mutable(frames'[h].state)
              /\ (/\ last'.op \in {"insert", "insert_derived", "mutable_object",
                                   "set_component", "remove_cascading", "freeze",
                                   "accept", "discard"}
                  /\ last'.frame = h)
                 => /\ ~last'.ok
                    /\ frames' = frames
                    /\ heap' = heap
                    /\ stable_frames' = stable_frames
                    /\ mutable_frames' = mutable_frames
                    /\ version_history' = version_history
                    /\ current_version_index' = current_version_index
      ]_vars

\* set_component has just been refused by an accepted frame, other than the
\* first, for an object that the frame has among its derived objects
C30_Witness ==
    /\ last.op = "set_component"
    /\ ~last.ok
    /\ last.frame > 1
    /\ frames[last.frame].accepted
    /\ HasKey(frames[last.frame].derived_objects, last.arg)

\* ------------------------------------------------------ tracked snapshot IDs
\* Node(id, snapshot_id) as a caller constructs it for insert
InsertedSnapshot(id, snapshot_id) == NewSnapshot(id, snapshot_id, "node", 0, 0, "none", <<>>)

\* Snapshot IDs a caller names: the identities the memory has handed out to
\* snapshots so far, as object ID or as snapshot ID, and 1
SnapshotIDs == {heap[r].snapshot_id : r \in Refs} \cup {heap[r].id : r \in Refs} \cup {1}

\* Copy on write, with snapshots the caller has constructed under object IDs
\* that the generator does not issue inserted into the open frame
NextTracking ==
    \/ NextFrame
    \/ \E h \in OpenFrames, id \in 1..MaxInput, snapshot_id \in SnapshotIDs :
          Len(heap) < MaxHeap /\ insert_new(h, InsertedSnapshot(id, snapshot_id), FALSE)

SpecTracking == Init /\ [][NextTracking]_vars

\* The snapshot IDs of the snapshots that frame f contains
ContainedSnapshotIDs(f) == {heap[f.snapshots[i].ref].snapshot_id : i \in 1..Len(f.snapshots)}

\* C31: insert(snapshot) on an open frame fails and leaves the frame as it
\* was exactly when the frame contains an object of the snapshot's object ID
\* or a snapshot of the snapshot's snapshot ID; otherwise it succeeds and the
\* frame holds the snapshot under its object ID.
C31_InsertFailsExactlyOnDuplicates ==
    [][\A h \in OpenFrames, id \in 1..MaxInput, snapshot_id \in SnapshotIDs :
          (/\ last'.op = "insert"
           /\ insert_new(h, InsertedSnapshot(id, snapshot_id), FALSE))
          => IF \/ frame_contains(frames[h], id)
                \/ snapshot_id \in ContainedSnapshotIDs(frames[h])
             THEN /\ ~last'.ok
                  /\ frames' = frames
             ELSE /\ last'.ok
                  /\ frame_contains(frames'[h], id)
                  /\ heap'[Lookup(frames'[h].snapshots, id).ref] =
                        InsertedSnapshot(id, snapshot_id)
      ]_vars

\* Every open frame tracks exactly the snapshot IDs of its snapshots
TrackedExactly ==
    \A h \in OpenFrames : frames[h].snapshot_ids = ContainedSnapshotIDs(frames[h])

\* C36: the snapshot-ID set of every open frame is the set of the snapshot
\* IDs of the snapshots the frame contains, after every insert, creation,
\* derivation and removal, and remove_cascading of an object that the frame
\* contains and has derived succeeds and takes the object out of the frame.
C36_SnapshotIdsAreTracked ==
    [][ /\ TrackedExactly'
        /\ (/\ last'.op = "remove_cascading"
            /\ is_mutable(frames[last'.frame].state)
            /\ frame_contains(frames[last'.frame], last'.arg)
            /\ HasKey(frames[last'.frame].derived_objects, last'.arg))
           => /\ last'.ok
              /\ ~frame_contains(frames'[last'.frame], last'.arg)
      ]_vars

\* C32: redo(version) fails and leaves the cursor where it was when the
\* version is not among the redoable versions, and no redo moves the cursor
\* backward.
C32_RedoOnlyForward ==
    [][\A version \in Versions :
          (last'.op = "redo" /\ redo(version)) =>
              /\ current_version_index' >= current_version_index
              /\ (\A i \in 1..Len(redoable_versions) : redoable_versions[i] # version)
                 => /\ ~last'.ok
                    /\ current_version_index' = current_version_index
      ]_vars

\* ------------------------------------------- topological_sort, step by step
\* The run of topological_sort(to_sort, edges): `pc` is "start" before the
\* first statement, "loop" at the test of "while sources", "done" after the
\* return or the raise.
SortRun(to_sort, given, pc, sorted, edges, sources, ok) ==
    [op |-> "sorting", to_sort |-> to_sort, given |-> given, pc |-> pc,
     sorted |-> sorted, edges |-> edges, sources |-> sources, ok |-> ok]

\* Mutant: a return that leaves the function where it is
sort_returned_never(run) == run

\* "if edges: raise ... else: return sorted"
sort_returned(run) == [run EXCEPT !.pc = "done", !.ok = (run.edges = <<>>)]

\* The statements before the loop: the copies of the lists, targets, sources
sort_begin ==
    /\ last.op = "sorting"
    /\ last.pc = "start"
    /\ LET targets == {last.given[i].target : i \in 1..Len(last.given)}
       IN last' = [last EXCEPT
                      !.pc = "loop",
                      !.edges = last.given,
                      !.sources = SelectSeq(last.to_sort, LAMBDA node : node \notin targets)]
    /\ UNCHANGED memvars

\* One pass of "while sources": pop, append to sorted, the for loop
sort_iterate ==
    /\ last.op = "sorting"
    /\ last.pc = "loop"
    /\ last.sources # <<>>
    /\ LET node == last.sources[Len(last.sources)]
           outgoings == SelectSeq(last.edges, LAMBDA edge : edge.origin = node)
           visited == sort_visit(outgoings, last.edges,
                                 SubSeq(last.sources, 1, Len(last.sources) - 1), node)
       IN last' = [last EXCEPT !.sorted = Append(@, node),
                               !.edges = visited.edges,
                               !.sources = visited.sources]
    /\ UNCHANGED memvars

\* The loop has ended: the function returns or raises
sort_end ==
    /\ last.op = "sorting"
    /\ last.pc = "loop"
    /\ last.sources = <<>>
    /\ last' = sort_returned(last)
    /\ UNCHANGED memvars

InitSortSteps ==
    /\ InitMemory
    /\ \E to_sort \in NodeLists, edges \in EdgeLists :
          \* the node lists in ascending order
          /\ \A i, j \in 1..Len(to_sort) : i < j => to_sort[i] < to_sort[j]
          /\ last = SortRun(to_sort, edges, "start", <<>>, <<>>, <<>>, FALSE)

NextSortSteps == sort_begin \/ sort_iterate \/ sort_end

\* The function runs on one thread that keeps executing its statements
SpecSortSteps == InitSortSteps /\ [][NextSortSteps]_vars /\ WF_vars(NextSortSteps)

\* C33: every run of topological_sort, on an acyclic or a cyclic list of
\* edges, comes to its end, where it returns a list or reports a cycle.
C33_SortTerminates == <>(last.pc = "done")

\* A run has ended reporting a cycle after a node was taken twice from the
\* sources
C33_Witness ==
    /\ last.op = "sorting"
    /\ last.pc = "done"
    /\ ~last.ok
    /\ \E i, j \in 1..Len(last.sorted) : i # j /\ last.sorted[i] = last.sorted[j]

\* ------------------------------------------------------------- EdgeEndpointType
MaxCheckNodes == 2
MaxCheckEdges == 2

CheckNodes == 1..MaxCheckNodes

\* The object types of nodes; "none" stands for a type that is not given (None)
NodeTypes == {"NodeTypeA", "NodeTypeB"}

\* The lists of edges between the nodes of the graph handed to check
CheckEdgeLists ==
    {[i \in 1..Len(ends) |-> [id |-> i, origin |-> ends[i][1], target |-> ends[i][2]]] :
        ends \in UNION {[1..n -> CheckNodes \X CheckNodes] : n \in 0..MaxCheckEdges}}

\* Mutant: a check that looks at the origin only
check_origin_only(requirement, node_type, objects) ==
    SelectSeq(objects, LAMBDA edge :
        requirement.origin_type # "none" /\ node_type[edge.origin] # requirement.origin_type)

\* EdgeEndpointType.check(graph, objects): node_type[id] is graph.node(id).type
check(requirement, node_type, objects) ==
    SelectSeq(objects, LAMBDA edge :
        IF requirement.origin_type # "none" /\ node_type[edge.origin] # requirement.origin_type
        THEN TRUE
        ELSE requirement.target_type # "none" /\ node_type[edge.target] # requirement.target_type)

\* A call requirement.check(graph, objects) that has not run yet
CheckCall(requirement, node_type, objects) ==
    [op |-> "check", requirement |-> requirement, node_type |-> node_type,
     objects |-> objects, done |-> FALSE, violators |-> <<>>]

check_edges ==
    /\ last.op = "check"
    /\ ~last.done
    /\ last' = [last EXCEPT !.done = TRUE,
                            !.violators = check(last.requirement, last.node_type,
                                                last.objects)]
    /\ UNCHANGED memvars

InitConstraint ==
    /\ InitMemory
    /\ \E origin_type, target_type \in NodeTypes \cup {"none"},
          node_type \in [CheckNodes -> NodeTypes], objects \in CheckEdgeLists :
          last = CheckCall([origin_type |-> origin_type, target_type |-> target_type],
                           node_type, objects)

NextConstraint == check_edges

SpecConstraint == InitConstraint /\ [][NextConstraint]_vars

\* C34: check returns, in the order of the input, exactly the edges whose
\* origin node has another type than a given origin_type or whose target
\* node has another type than a given target_type, and the graph and the
\* list of edges are as before.
C34_CheckReturnsMismatches ==
    [][last'.op = "check" /\ last'.done =>
          LET requirement == last.requirement
              node_type == last.node_type
              objects == last.objects
              violators == last'.violators
              mismatch(edge) ==
                  \/ /\ requirement.origin_type # "none"
                     /\ node_type[edge.origin] # requirement.origin_type
                  \/ /\ requirement.target_type # "none"
                     /\ node_type[edge.target] # requirement.target_type
          IN /\ \A i \in 1..Len(violators) :
                   violators[i] = objects[violators[i].id]
             /\ \A i, j \in 1..Len(violators) :
                   i < j => violators[i].id < violators[j].id
             /\ {violators[i].id : i \in 1..Len(violators)} =
                   {i \in 1..Len(objects) : mismatch(objects[i])}
             /\ last'.node_type = node_type
             /\ last'.objects = objects
      ]_vars

\* check has returned, of two edges, the one whose target alone has the
\* wrong type
C34_Witness ==
    /\ last.op = "check"
    /\ last.done
    /\ Len(last.objects) = 2
    /\ Len(last.violators) = 1
    /\ last.requirement.origin_type # "none"
    /\ last.requirement.target_type # "none"
    /\ last.node_type[last.violators[1].origin] = last.requirement.origin_type

\* ------------------------------------------------------- required components
\* Component lists a caller passes to create_node and create_edge: nothing,
\* the kind a Stock requires, or the kind an Arrow requires, with a value
\* that is not the default one
RequiredComponentLists ==
    {<<>>, <<[kind |-> "A", value |-> MaxComponentValue]>>,
           <<[kind |-> "B", value |-> MaxComponentValue]>>}

\* Nodes and edges are created through the graph view of one open frame at a
\* time, with and without the required component; they are derived for
\* mutation, a component is set, and the frame is accepted.
NextRequired ==
    \/ OpenFrames = {} /\ RoomForFrame(MaxNeighborFrames, MaxNeighborId) /\ derive_frame(0, 0)
    \/ \E h \in OpenFrames, components \in RequiredComponentLists :
          RoomForSnapshot(MaxNeighborHeap, MaxNeighborId)
              /\ create_node(h, "Stock", components)
    \/ \E h \in OpenFrames, origin, target \in ObjectIDs,
          components \in RequiredComponentLists :
          RoomForSnapshot(MaxNeighborHeap, MaxNeighborId)
              /\ create_edge(h, "Arrow", origin, target, components)
    \/ \E h \in OpenFrames, id \in ObjectIDs :
          RoomForMutation(h, id, MaxNeighborHeap, MaxNeighborId) /\ mutable_object(h, id)
    \/ \E h \in OpenFrames, id \in ObjectIDs, kind \in Kinds :
          RoomForMutation(h, id, MaxNeighborHeap, MaxNeighborId)
              /\ set_component(h, id, kind, MaxValue)
    \/ \E h \in OpenFrames : accept(h, TRUE)

SpecRequired == Init /\ [][NextRequired]_vars

\* The component a created object must carry for a required kind: the
\* caller's, when the caller's list has one of that kind, and else the default
ExpectedComponent(components, kind) ==
    IF \E i \in 1..Len(components) : components[i].kind = kind
    THEN (CHOOSE c \in {components[i] : i \in 1..Len(components)} : c.kind = kind).value
    ELSE 1

\* The kinds of a list of kinds
KindsOf(kinds) == {kinds[i] : i \in 1..Len(kinds)}

\* C35: an object created by create_node or create_edge has a component of
\* every kind its object type requires, with the caller's value for a kind
\* the caller supplied and the default value for a kind the caller omitted,
\* and every node and edge of the memory has the required kinds ever after.
C35_RequiredComponentsPresent ==
    [][/\ \A h \in OpenFrames, components \in RequiredComponentLists :
             (last'.op = "create_node" /\ last'.ok
                  /\ create_node(h, "Stock", components)) =>
                 \A kind \in KindsOf(component_types("Stock")) :
                     heap'[last'.ref].components[kind]
                         = ExpectedComponent(components, kind)
       /\ \A h \in OpenFrames, origin, target \in ObjectIDs,
             components \in RequiredComponentLists :
             (last'.op = "create_edge" /\ last'.ok
                  /\ create_edge(h, "Arrow", origin, target, components)) =>
                 \A kind \in KindsOf(component_types("Arrow")) :
                     heap'[last'.ref].components[kind]
                         = ExpectedComponent(components, kind)
       /\ \A r \in 1..Len(heap') :
             /\ heap'[r].structural = "node" =>
                   \A kind \in KindsOf(component_types("Stock")) :
                       heap'[r].components[kind] # 0
             /\ heap'[r].structural = "edge" =>
                   \A kind \in KindsOf(component_types("Arrow")) :
                       heap'[r].components[kind] # 0
      ]_vars

\* A node created with the caller's component of the required kind and an
\* edge created without one are in the memory
C35_Witness ==
    /\ \E r \in Refs : /\ heap[r].structural = "node"
                       /\ heap[r].components["A"] = MaxComponentValue
    /\ \E r \in Refs : /\ heap[r].structural = "edge"
                       /\ heap[r].components["B"] = 1
                       /\ heap[r].components["A"] = 0


\* C37: a frame that create_frame or derive_frame registers gets a version
\* that no stable and no open mutable frame of the memory has, and every
\* frame registered before stays registered under its version.
C37_FrameVersionsAreUnique ==
    [][last'.op \in {"create_frame", "derive_frame"} /\ last'.ok =>
          LET version == frames'[last'.frame].version
          IN /\ ~HasKey(stable_frames, version)
             /\ version \notin DOMAIN mutable_frames
             /\ \A v \in DOMAIN mutable_frames : mutable_frames'[v] = mutable_frames[v]
             /\ stable_frames' = stable_frames
      ]_vars


\* ------------------------------------------------------------ frame removal
\* memory.remove_frame(version)
remove_frame(version) ==
    /\ IF HasKey(stable_frames, version)
       THEN /\ stable_frames' = DictDel(stable_frames, version)
            /\ last' = Call("remove_frame", 0, version, TRUE)
            /\ UNCHANGED mutable_frames
       ELSE IF version \in DOMAIN mutable_frames
       THEN /\ mutable_frames' = MapDel(mutable_frames, version)
            /\ last' = Call("remove_frame", 0, version, TRUE)
            /\ UNCHANGED stable_frames
       ELSE /\ last' = Call("remove_frame", 0, version, FALSE)
            /\ UNCHANGED <<stable_frames, mutable_frames>>
    /\ UNCHANGED <<identity_generator, heap, frames, version_history,
                   current_version_index>>

\* Frames are derived from the current version, accepted into the history or
\* registered without it, discarded, and removed from the memory, and the
\* history is walked with undo and redo.
NextRemoval ==
    \/ RoomForFrame(MaxFrames, MaxId) /\ derive_frame(0, 0)
    \/ \E h \in OpenFrames, append_history \in BOOLEAN : accept(h, append_history)
    \/ \E h \in OpenFrames : discard(h)
    \/ \E version \in Versions : undo(version)
    \/ \E version \in Versions : redo(version)
    \/ \E version \in Versions : remove_frame(version)

SpecRemoval == Init /\ [][NextRemoval]_vars

\* C38: the history is never empty, current_version_index is an index of
\* it, and every version in it is the version of a registered stable frame.
C38_HistoryResolves ==
    /\ version_history # <<>>
    /\ current_version_index \in 0..(Len(version_history) - 1)
    /\ \A i \in 1..Len(version_history) : HasKey(stable_frames, version_history[i])


\* C39: when the first two frames a memory derives are open at the same
\* time (an object is created in one after the other has been derived) and
\* are accepted one after the other, the objects created in the frame
\* accepted first are contained in current_frame after the second accept.
C39_ConcurrentAcceptsKeepObjects ==
    \A first, second \in {2, 3} :
        (/\ Len(frames) = 3
         /\ first # second
         /\ frames[first].accepted
         /\ frames[second].accepted
         /\ last.op = "accept" /\ last.ok /\ last.frame = second
         /\ version_history = <<1, frames[first].version, frames[second].version>>
         /\ current_version_index = 2)
        => \A id \in Keys(frames[first].stable) :
               id > frames[second].version
                   => HasKey(frames[current_frame].stable, id)

====
